---------------------------- MODULE Spec2Model ----------------------------
(***************************************************************************)
(* A model of the gzip decompressor: BitReader (bit_reader.rs),            *)
(* TrackingWriter (tracking_writer.rs), HuffmanCoding (huffman_coding.rs), *)
(* the DEFLATE block engine (deflate.rs), the gzip framing (gzip.rs) and   *)
(* the decompress driver (lib.rs).                                         *)
(*                                                                         *)
(* Numbers.  TLC's integers are 32-bit signed, so a u32 is kept as two     *)
(* 16-bit limbs <<lo, hi>> and a usize (64-bit target) as four 16-bit      *)
(* limbs, least significant first.  Bytes are 0..255.                      *)
(*                                                                         *)
(* Window.  The history window of the TrackingWriter is HISTORY_SIZE bytes *)
(* (32768 in the source).  The model keeps the code's logic and scales the *)
(* window to a few bytes so that the trimming of the history is reached;   *)
(* HISTORY_SIZE is therefore one of the model's bounds.                    *)
(***************************************************************************)
EXTENDS Integers, Sequences, FiniteSets, TLC

VARIABLES
    stream,         \* the byte source R: the bytes not yet read
    unread_bits,    \* BitReader.unread_bits: a BitSequence [bits, len]
    writer,         \* the TrackingWriter: [inner, history, digest, byte_count]
    pc,             \* the type-state of the pipeline, or the unit under test
    is_exhausted,   \* DeflateReader.is_exhausted
    header,         \* DeflateBlock.header: [is_final, compression_type]
    result,         \* what the last operation returned
    ghost           \* bookkeeping of the checks (never read by the program)

vars == <<stream, unread_bits, writer, pc, is_exhausted, header, result, ghost>>

----------------------------------------------------------------------------
(* Bounds of the model.                                                    *)

\* tracking_writer.rs:14 has HISTORY_SIZE = 32768; scaled (see above).
HISTORY_SIZE == 3
\* The unit specifications stop once the sink has accepted this many bytes
\* beyond the window.
MaxBeyond == 2
\* The longest byte source of the BitReader unit specification.
MaxStream == 3

----------------------------------------------------------------------------
(* Machine arithmetic.                                                     *)

Min(a, b) == IF a < b THEN a ELSE b

\* A `let`: the value v, computed once, handed to the rest of the function.
Bind(v, F(_)) == CHOOSE y \in {F(r) : r \in {v}} : TRUE

RECURSIVE BitXor(_, _)
BitXor(a, b) ==
    IF a = 0 THEN b
    ELSE IF b = 0 THEN a
    ELSE ((a + b) % 2) + 2 * BitXor(a \div 2, b \div 2)

RECURSIVE BitOr(_, _)
BitOr(a, b) ==
    IF a = 0 THEN b
    ELSE IF b = 0 THEN a
    ELSE (IF a % 2 = 1 \/ b % 2 = 1 THEN 1 ELSE 0) + 2 * BitOr(a \div 2, b \div 2)

RECURSIVE BitAnd(_, _)
BitAnd(a, b) ==
    IF a = 0 \/ b = 0 THEN 0
    ELSE (IF a % 2 = 1 /\ b % 2 = 1 THEN 1 ELSE 0) + 2 * BitAnd(a \div 2, b \div 2)

\* u16 arithmetic wraps in release builds.
u16(x) == x % 65536

\* u32 as <<lo, hi>>.
u32_from_le(b0, b1, b2, b3) == <<b0 + 256 * b1, b2 + 256 * b3>>
u32_to_le_bytes(x) == <<x[1] % 256, x[1] \div 256, x[2] % 256, x[2] \div 256>>
u32_xor(x, y) == <<BitXor(x[1], y[1]), BitXor(x[2], y[2])>>
u32_shr(x, n) == <<(x[1] \div 2^n) + (x[2] % 2^n) * 2^(16 - n), x[2] \div 2^n>>
u16_from_le(b0, b1) == b0 + 256 * b1
u16_to_le_bytes(x) == <<x % 256, x \div 256>>

\* usize as four 16-bit limbs; n is a count below 2^31.
usize_zero == <<0, 0, 0, 0>>
RECURSIVE usize_carry(_, _, _)
usize_carry(x, i, c) ==
    IF i > Len(x) THEN x
    ELSE Bind(x[i] + c, LAMBDA s :
            usize_carry([x EXCEPT ![i] = s % 65536], i + 1, s \div 65536))
usize_add(x, n) == usize_carry(x, 1, n)
usize_of(n) == usize_add(usize_zero, n)
u32_as_usize(x) == <<x[1], x[2], 0, 0>>
\* The low 32 bits of a usize, as a u32.
usize_mod_2_32(x) == <<x[1], x[2]>>

----------------------------------------------------------------------------
(* CRC-32/ISO-HDLC (the crc crate's CRC_32_ISO_HDLC): reflected polynomial *)
(* 0xEDB88320, initial value 0xFFFFFFFF, final XOR 0xFFFFFFFF.             *)

CrcPoly == <<33568, 60856>>        \* 0xEDB8_8320
CrcInit == <<65535, 65535>>

RECURSIVE CrcEntry(_, _)
CrcEntry(c, k) ==
    IF k = 0 THEN c
    ELSE CrcEntry(IF c[1] % 2 = 1 THEN u32_xor(CrcPoly, u32_shr(c, 1))
                                  ELSE u32_shr(c, 1), k - 1)

CrcTable == [i \in 0..255 |-> CrcEntry(<<i, 0>>, 8)]

CrcStep(reg, b) == u32_xor(CrcTable[BitXor(reg[1] % 256, b)], u32_shr(reg, 8))

\* Digest::update: the bytes in order, the first half and then the second
\* (the update of a concatenation is the update by its parts).
RECURSIVE digest_update(_, _)
digest_update(reg, bytes) ==
    IF bytes = <<>> THEN reg
    ELSE IF Len(bytes) = 1 THEN CrcStep(reg, bytes[1])
    ELSE Bind(digest_update(reg, SubSeq(bytes, 1, Len(bytes) \div 2)), LAMBDA r :
            digest_update(r, SubSeq(bytes, Len(bytes) \div 2 + 1, Len(bytes))))

\* Digest::finalize
digest_finalize(reg) == u32_xor(reg, <<65535, 65535>>)

\* The CRC-32 of a byte string.
Crc32(bytes) == digest_finalize(digest_update(CrcInit, bytes))

----------------------------------------------------------------------------
(* bit_reader.rs                                                           *)

\* BitSequence::new
BitSequence(bits, len) == [bits |-> bits, len |-> len]

\* concat with the new bits put on the left of the code.
concat_on_the_left(self, other) ==
    BitSequence(BitOr(u16(other.bits * 2^self.len), self.bits),
                self.len + other.len)

\* BitSequence::concat: (self.bits << other.len) | other.bits in u16.
concat(self, other) ==
    BitSequence(BitOr(u16(self.bits * 2^other.len), other.bits),
                self.len + other.len)

\* BitReader::new
BitReader_new(s) == [stream |-> s, unread_bits |-> BitSequence(0, 0)]

\* The while loop of read_bits: pull bytes until cnt >= len.  read_u8 fails
\* with UnexpectedEof on an empty source; the bytes pulled before the
\* failure are gone from the source.
RECURSIVE read_bits_loop(_, _, _, _)
read_bits_loop(s, bits, cnt, len) ==
    IF len > cnt
    THEN IF s = <<>>
         THEN [ok |-> FALSE, stream |-> s, bits |-> bits, cnt |-> cnt]
         ELSE read_bits_loop(Tail(s), BitOr(bits, Head(s) * 2^cnt), cnt + 8, len)
    ELSE [ok |-> TRUE, stream |-> s, bits |-> bits, cnt |-> cnt]

\* read_bits keeping the bits it returned in the unread-bits buffer (the
\* accumulator is not shifted by len).
read_bits_unshifted(br, len) ==
    Bind(read_bits_loop(br.stream, br.unread_bits.bits, br.unread_bits.len, len), LAMBDA l :
        IF l.ok
        THEN [ok  |-> TRUE,
              err |-> "",
              br  |-> [stream |-> l.stream,
                       unread_bits |-> BitSequence(u16(l.bits), l.cnt - len)],
              val |-> BitSequence(u16(BitAnd(l.bits, 2^len - 1)), len)]
        ELSE [ok  |-> FALSE,
              err |-> "UnexpectedEof",
              br  |-> [stream |-> l.stream, unread_bits |-> br.unread_bits],
              val |-> BitSequence(0, 0)])

\* BitReader::read_bits(len), len <= 16.  br is [stream, unread_bits].
read_bits(br, len) ==
    Bind(read_bits_loop(br.stream, br.unread_bits.bits, br.unread_bits.len, len), LAMBDA l :
        IF l.ok
        THEN [ok  |-> TRUE,
              err |-> "",
              br  |-> [stream |-> l.stream,
                       unread_bits |-> BitSequence(u16(l.bits \div 2^len), l.cnt - len)],
              val |-> BitSequence(u16(BitAnd(l.bits, 2^len - 1)), len)]
        ELSE [ok  |-> FALSE,
              err |-> "UnexpectedEof",
              br  |-> [stream |-> l.stream, unread_bits |-> br.unread_bits],
              val |-> BitSequence(0, 0)])

\* borrow_reader_from_boundary with the unread bits kept.
borrow_reader_keeping_bits(br) == br

\* BitReader::borrow_reader_from_boundary
borrow_reader_from_boundary(br) ==
    [stream |-> br.stream, unread_bits |-> BitSequence(0, 0)]

\* BitReader::into_inner
into_inner(br) == br.stream

----------------------------------------------------------------------------
(* The output sink W.  A sink accepts at most `chunk` bytes per write call *)
(* and `cap` bytes in all; a full sink answers Ok(0) (a slice, as in the   *)
(* tests) or, with full_err, an I/O error.                                 *)

Sink(data, cap, chunk, full_err) ==
    [data |-> data, cap |-> cap, chunk |-> chunk, full_err |-> full_err]

\* W::write(buf)
inner_write(inner, buf) ==
    Bind(inner.cap - Len(inner.data), LAMBDA room :
        IF buf # <<>> /\ room <= 0 /\ inner.full_err
        THEN [ok |-> FALSE, n |-> 0, inner |-> inner]
        ELSE Bind(Min(Len(buf), Min(inner.chunk, room)), LAMBDA n :
                [ok |-> TRUE, n |-> n,
                 inner |-> [inner EXCEPT !.data = @ \o SubSeq(buf, 1, n)]]))

----------------------------------------------------------------------------
(* tracking_writer.rs                                                      *)

\* TrackingWriter::new
TrackingWriter_new(inner) ==
    [inner      |-> inner,
     history    |-> <<>>,
     digest     |-> CrcInit,
     byte_count |-> usize_zero]

\* history.drain(..(len - HISTORY_SIZE)) when len > HISTORY_SIZE
drain(h) ==
    IF Len(h) > HISTORY_SIZE THEN SubSeq(h, Len(h) - HISTORY_SIZE + 1, Len(h)) ELSE h

\* write feeding the whole buffer, not the accepted prefix, to the digest.
write_digest_whole_buf(w, buf) ==
    Bind(inner_write(w.inner, buf), LAMBDA r :
        IF ~r.ok
        THEN [ok |-> FALSE, n |-> 0, w |-> w]
        ELSE [ok |-> TRUE, n |-> r.n,
              w  |-> [inner      |-> r.inner,
                      history    |-> drain(w.history \o SubSeq(buf, 1, r.n)),
                      digest     |-> digest_update(w.digest, buf),
                      byte_count |-> usize_add(w.byte_count, r.n)]])

\* <TrackingWriter as Write>::write
write(w, buf) ==
    Bind(inner_write(w.inner, buf), LAMBDA r :
        IF ~r.ok
        THEN [ok |-> FALSE, n |-> 0, w |-> w]
        ELSE [ok |-> TRUE, n |-> r.n,
              w  |-> [inner      |-> r.inner,
                      history    |-> drain(w.history \o SubSeq(buf, 1, r.n)),
                      digest     |-> digest_update(w.digest, SubSeq(buf, 1, r.n)),
                      byte_count |-> usize_add(w.byte_count, r.n)]])

\* std::io::Write::write_all over TrackingWriter::write: Ok(0) is the
\* WriteZero error, any other error is returned as it is.
RECURSIVE write_all(_, _)
write_all(w, buf) ==
    IF buf = <<>>
    THEN [ok |-> TRUE, err |-> "", w |-> w]
    ELSE Bind(write(w, buf), LAMBDA r :
            IF ~r.ok THEN [ok |-> FALSE, err |-> "Io", w |-> r.w]
            ELSE IF r.n = 0 THEN [ok |-> FALSE, err |-> "WriteZero", w |-> r.w]
            ELSE write_all(r.w, SubSeq(buf, r.n + 1, Len(buf))))

\* WriteBytesExt::write_u8
write_u8(w, byte) == write_all(w, <<byte>>)

\* The slice without .cycle(): past its end the last byte is repeated.
history_slice_no_cycle(h, slice_start, slice_end, len) ==
    [i \in 1..len |-> h[slice_start + Min(i, slice_end - slice_start)]]

\* history.range(slice_start..slice_end).copied().cycle().take(len)
history_slice(h, slice_start, slice_end, len) ==
    [i \in 1..len |-> h[slice_start + 1 + ((i - 1) % (slice_end - slice_start))]]

\* write_previous without the len == 0 test.
write_previous_no_len_check(w, dist, len) ==
    IF dist > Len(w.history) \/ dist = 0
    THEN [ok |-> FALSE, err |-> "BadBackReference", w |-> w]
    ELSE Bind(Len(w.history) - dist, LAMBDA slice_start :
            write_all(w, history_slice(w.history, slice_start,
                                       Min(slice_start + len, Len(w.history)), len)))

\* TrackingWriter::write_previous
write_previous(w, dist, len) ==
    IF dist > Len(w.history) \/ len = 0 \/ dist = 0
    THEN [ok |-> FALSE, err |-> "BadBackReference", w |-> w]
    ELSE Bind(Len(w.history) - dist, LAMBDA slice_start :
            write_all(w, history_slice(w.history, slice_start,
                                       Min(slice_start + len, Len(w.history)), len)))

\* TrackingWriter::byte_count
byte_count(w) == w.byte_count

\* TrackingWriter::crc32
crc32(w) == [crc |-> digest_finalize(w.digest), inner |-> w.inner]

----------------------------------------------------------------------------
(* Values of the variables a specification does not use.                   *)

NoHeader == [is_final |-> FALSE, compression_type |-> "None"]
NoResult == [op |-> "none", ok |-> TRUE]
NoWriter == TrackingWriter_new(Sink(<<>>, 0, 0, FALSE))

----------------------------------------------------------------------------
(* SpecBR: a BitReader over a byte source, driven by read_bits and         *)
(* borrow_reader_from_boundary calls (tests::read_bits,                    *)
(* tests::borrow_reader_from_boundary).                                    *)

\* The byte source of tests::read_bits, and the byte values the sources
\* are built from.
TestStream == <<99, 219, 175>>
TestBytes == {99, 219}

\* The lengths asked of read_bits: those of tests::read_bits, and the ends
\* of the range 0..=16.
ReadLens == {0, 1, 2, 3, 4, 5, 8, 15, 16}

RECURSIVE SeqsUpTo(_, _)
SeqsUpTo(S, n) ==
    IF n = 0 THEN {<<>>}
    ELSE LET shorter == SeqsUpTo(S, n - 1)
         IN  shorter \cup {Append(q, x) : q \in {t \in shorter : Len(t) = n - 1}, x \in S}

InitBR ==
    /\ stream \in SeqsUpTo(TestBytes, MaxStream) \cup {TestStream}
    /\ unread_bits = BitSequence(0, 0)
    /\ writer = NoWriter
    /\ pc = "BitReader"
    /\ is_exhausted = FALSE
    /\ header = NoHeader
    /\ result = NoResult
    /\ ghost = [data |-> stream, pos |-> 0, aligned |-> FALSE]

BRReadBits(n) ==
    LET br == [stream |-> stream, unread_bits |-> unread_bits]
        r  == read_bits(br, n)
    IN  /\ pc = "BitReader"
        /\ stream' = r.br.stream
        /\ unread_bits' = r.br.unread_bits
        /\ result' = [op |-> "read_bits", ok |-> r.ok, err |-> r.err, n |-> n,
                      val |-> r.val, pos |-> ghost.pos,
                      consumed |-> Len(stream) - Len(r.br.stream)]
        /\ ghost' = [ghost EXCEPT !.pos = IF r.ok THEN @ + n ELSE @]
        /\ UNCHANGED <<writer, pc, is_exhausted, header>>

BRBorrow ==
    LET br == [stream |-> stream, unread_bits |-> unread_bits]
        b  == borrow_reader_from_boundary(br)
    IN  /\ pc = "BitReader"
        /\ stream' = b.stream
        /\ unread_bits' = b.unread_bits
        /\ result' = [op |-> "borrow", ok |-> TRUE]
        /\ ghost' = [ghost EXCEPT !.aligned = TRUE]
        /\ UNCHANGED <<writer, pc, is_exhausted, header>>

NextBR ==
    \/ \E n \in ReadLens : BRReadBits(n)
    \/ BRBorrow

SpecBR == InitBR /\ [][NextBR]_vars

----------------------------------------------------------------------------
(* Claims about the BitReader (SpecBR).                                    *)

\* Bit j of the little-endian bit stream of `data`: bit j % 8 of byte j / 8.
StreamBit(data, j) == (data[(j \div 8) + 1] \div 2^(j % 8)) % 2

\* Bits [p, p+n) of the stream, bit p as the least significant bit.
RECURSIVE StreamBits(_, _, _)
StreamBits(data, p, n) ==
    IF n = 0 THEN 0 ELSE StreamBit(data, p) + 2 * StreamBits(data, p + 1, n - 1)

\* C7: a successful read_bits(n), n in 0..=16, returns a sequence of length
\* n whose value is below 2^n and equals bits [p, p+n) of the little-endian
\* bit stream of the source, p being the sum of the earlier successful
\* requests; read_bits(0) succeeds and consumes no input; a call that needs
\* a bit beyond the last byte fails with UnexpectedEof.
C7_ReadBitsLittleEndian ==
    (pc = "BitReader" /\ result.op = "read_bits" /\ ~ghost.aligned) =>
        /\ result.ok =>
            /\ result.val.len = result.n
            /\ result.val.bits < 2^result.n
            /\ result.pos + result.n <= 8 * Len(ghost.data)
            /\ result.val.bits = StreamBits(ghost.data, result.pos, result.n)
        /\ result.n = 0 => (result.ok /\ result.consumed = 0)
        /\ result.pos + result.n > 8 * Len(ghost.data) =>
            (~result.ok /\ result.err = "UnexpectedEof")

\* A 16-bit read that starts inside a byte and spans three bytes.
C7_Witness ==
    /\ pc = "BitReader" /\ result.op = "read_bits" /\ ~ghost.aligned
    /\ result.ok /\ result.n = 16 /\ result.pos = 3
    /\ ghost.data = TestStream

----------------------------------------------------------------------------
(* SpecTW: a TrackingWriter over a sink, driven by write and               *)
(* write_previous calls (tests::write, tests::write_previous,              *)
(* tests::write_previous_overlapped).                                      *)

NoLimit == 2^20

\* The buffers offered to write (the byte values are those of
\* tests::write_previous_overlapped) and the lengths asked of write_previous.
UnitBufs == {<<>>, <<240>>, <<15>>, <<15, 240>>}
CopyLens == {0, 1, 2, 3}

\* The sinks: unlimited; one byte per call; a slice one byte longer than
\* the window; a sink smaller than the window that fails once full; a sink already holding a
\* byte when the writer is made.
UnitSinks ==
    { Sink(<<>>, NoLimit, NoLimit, FALSE),
      Sink(<<>>, NoLimit, 1, FALSE),
      Sink(<<>>, HISTORY_SIZE + 1, NoLimit, FALSE),
      Sink(<<>>, HISTORY_SIZE - 1, NoLimit, TRUE),
      Sink(<<15>>, NoLimit, NoLimit, FALSE) }

\* The bytes the sink has accepted from this TrackingWriter.
Accepted == SubSeq(writer.inner.data, ghost.start + 1, Len(writer.inner.data))

InitTW ==
    /\ stream = <<>>
    /\ unread_bits = BitSequence(0, 0)
    /\ \E k \in UnitSinks : writer = TrackingWriter_new(k)
    /\ pc = "TrackingWriter"
    /\ is_exhausted = FALSE
    /\ header = NoHeader
    /\ result = NoResult
    /\ ghost = [start |-> Len(writer.inner.data)]

TWWrite(buf) ==
    LET r == write(writer, buf)
    IN  /\ pc = "TrackingWriter"
        /\ Len(Accepted) < HISTORY_SIZE + MaxBeyond
        /\ writer' = r.w
        /\ result' = [op |-> "write", ok |-> r.ok, n |-> r.n, buf |-> buf,
                      before |-> writer]
        /\ UNCHANGED <<stream, unread_bits, pc, is_exhausted, header, ghost>>

TWWritePrevious(dist, len) ==
    LET r == write_previous(writer, dist, len)
    IN  /\ pc = "TrackingWriter"
        /\ Len(Accepted) < HISTORY_SIZE + MaxBeyond
        /\ writer' = r.w
        /\ result' = [op |-> "write_previous", ok |-> r.ok, err |-> r.err,
                      dist |-> dist, len |-> len, before |-> writer]
        /\ UNCHANGED <<stream, unread_bits, pc, is_exhausted, header, ghost>>

NextTW ==
    \/ \E buf \in UnitBufs : TWWrite(buf)
    \/ \E dist \in 0..(HISTORY_SIZE + 1), len \in CopyLens : TWWritePrevious(dist, len)

SpecTW == InitTW /\ [][NextTW]_vars

----------------------------------------------------------------------------
(* Claims about the TrackingWriter (SpecTW).                               *)

\* The last n elements of s (all of s when it is shorter).
LastN(s, n) == IF Len(s) > n THEN SubSeq(s, Len(s) - n + 1, Len(s)) ELSE s

\* C8: after any sequence of write and write_previous calls, short writes
\* and failed calls included, byte_count is the number of bytes the sink
\* accepted, history is the last min(byte_count, HISTORY_SIZE) accepted
\* bytes in order, and the digest is the CRC-32 of the accepted bytes.
C8_WriterTracksAccepted ==
    pc = "TrackingWriter" =>
        /\ writer.byte_count = usize_of(Len(Accepted))
        /\ writer.history = LastN(Accepted, Min(Len(Accepted), HISTORY_SIZE))
        /\ Len(writer.history) = Min(Len(Accepted), HISTORY_SIZE)
        /\ digest_finalize(writer.digest) = Crc32(Accepted)

\* A short write (fewer bytes accepted than offered) after which the
\* history has been trimmed to the window.
C8_Witness ==
    /\ pc = "TrackingWriter" /\ result.op = "write" /\ result.ok
    /\ 0 < result.n /\ result.n < Len(result.buf)
    /\ Len(Accepted) > HISTORY_SIZE
    /\ Len(writer.history) = HISTORY_SIZE

\* The bytes write_previous(dist, len) is to append, from the history h
\* before the call: the i-th (from 0) is h[Len(h) - dist + (i mod dist)].
ExpectedCopy(h, dist, len) ==
    [i \in 1..len |-> h[Len(h) - dist + ((i - 1) % dist) + 1]]

\* C9: when 1 <= dist <= history length, len >= 1 and the sink has room
\* for every byte, write_previous(dist, len) succeeds and appends exactly
\* the len bytes of the cyclic reading of the dist-byte window, taken from
\* the history as it was before the call.
C9_WritePreviousCyclic ==
    (/\ pc = "TrackingWriter" /\ result.op = "write_previous"
     /\ 1 <= result.dist /\ result.dist <= Len(result.before.history)
     /\ result.len >= 1
     /\ result.before.inner.cap - Len(result.before.inner.data) >= result.len) =>
        /\ result.ok
        /\ writer.inner.data = result.before.inner.data
                \o ExpectedCopy(result.before.history, result.dist, result.len)

\* A copy longer than its distance over a window of two different bytes.
C9_Witness ==
    /\ pc = "TrackingWriter" /\ result.op = "write_previous" /\ result.ok
    /\ result.dist = 2 /\ result.len = 3
    /\ result.before.history[Len(result.before.history)]
         # result.before.history[Len(result.before.history) - 1]

\* C10: write_previous with dist = 0, len = 0 or dist beyond the history
\* fails and changes nothing (byte_count, history, digest, sink); once the
\* history holds HISTORY_SIZE bytes, a call with len >= 1 passes the
\* argument check for every dist in 1..=HISTORY_SIZE and fails it for every
\* larger dist, whatever the number of bytes written.
C10_WritePreviousRejects ==
    (pc = "TrackingWriter" /\ result.op = "write_previous") =>
        /\ (result.dist = 0 \/ result.len = 0
              \/ result.dist > Len(result.before.history)) =>
            (~result.ok /\ result.err = "BadBackReference" /\ writer = result.before)
        /\ (Len(result.before.history) = HISTORY_SIZE /\ result.len >= 1) =>
            /\ result.dist \in 1..HISTORY_SIZE => result.err # "BadBackReference"
            /\ result.dist > HISTORY_SIZE => result.err = "BadBackReference"

\* More bytes written than the window holds, and a distance one beyond the
\* window refused.
C10_Witness ==
    /\ pc = "TrackingWriter" /\ result.op = "write_previous"
    /\ Len(Accepted) > HISTORY_SIZE
    /\ result.dist = HISTORY_SIZE + 1 /\ result.len >= 1
    /\ ~result.ok /\ writer = result.before

----------------------------------------------------------------------------
(* huffman_coding.rs: the three alphabets.  A token is a record            *)
(* [kind, val, base, extra_bits]; the fields a kind does not have are 0.   *)

Token(kind, val, base, extra_bits) ==
    [kind |-> kind, val |-> val, base |-> base, extra_bits |-> extra_bits]

TokenOk(t) == [ok |-> TRUE, err |-> "", token |-> t]
NoToken == Token("None", 0, 0, 0)
TokenErr(e) == [ok |-> FALSE, err |-> e, token |-> NoToken]

\* TreeCodeToken::try_from with symbol 17 given the base and the extra bits
\* of symbol 18.
TreeCodeToken_try_from_17_as_18(value) ==
    IF value <= 15 THEN TokenOk(Token("Length", value, 0, 0))
    ELSE IF value = 16 THEN TokenOk(Token("CopyPrev", 0, 0, 0))
    ELSE IF value <= 18 THEN TokenOk(Token("RepeatZero", 0, 11, 7))
    ELSE TokenErr("NotACode")

\* impl TryFrom<HuffmanCodeWord> for TreeCodeToken
TreeCodeToken_try_from(value) ==
    IF value <= 15 THEN TokenOk(Token("Length", value, 0, 0))
    ELSE IF value = 16 THEN TokenOk(Token("CopyPrev", 0, 0, 0))
    ELSE IF value = 17 THEN TokenOk(Token("RepeatZero", 0, 3, 3))
    ELSE IF value = 18 THEN TokenOk(Token("RepeatZero", 0, 11, 7))
    ELSE TokenErr("NotACode")

\* impl TryFrom<HuffmanCodeWord> for LitLenToken
LitLenToken_try_from(value) ==
    IF value <= 255 THEN TokenOk(Token("Literal", value, 0, 0))
    ELSE IF value = 256 THEN TokenOk(Token("EndOfBlock", 0, 0, 0))
    ELSE IF value <= 264 THEN TokenOk(Token("Length", 0, value - 254, 0))
    ELSE IF value <= 268 THEN TokenOk(Token("Length", 0, 11 + 2 * (value - 265), 1))
    ELSE IF value <= 272 THEN TokenOk(Token("Length", 0, 19 + 4 * (value - 269), 2))
    ELSE IF value <= 276 THEN TokenOk(Token("Length", 0, 35 + 8 * (value - 273), 3))
    ELSE IF value <= 280 THEN TokenOk(Token("Length", 0, 67 + 16 * (value - 277), 4))
    ELSE IF value <= 284 THEN TokenOk(Token("Length", 0, 131 + 32 * (value - 281), 5))
    ELSE IF value = 285 THEN TokenOk(Token("Length", 0, 258, 0))
    ELSE IF value <= 287 THEN TokenErr("ReservedSymbol")
    ELSE TokenErr("NotACode")

\* DistanceToken::try_from with the bases counted from 0: the `+ 1` left out.
DistanceToken_try_from_from_zero(value) ==
    IF value <= 1 THEN TokenOk(Token("Distance", 0, value, 0))
    ELSE IF value <= 29
    THEN TokenOk(Token("Distance", 0, u16(((value % 2) + 2) * 2^((value \div 2) - 1)),
                       (value \div 2) - 1))
    ELSE IF value <= 31 THEN TokenErr("ReservedSymbol")
    ELSE TokenErr("NotACode")

\* impl TryFrom<HuffmanCodeWord> for DistanceToken
DistanceToken_try_from(value) ==
    IF value <= 1 THEN TokenOk(Token("Distance", 0, value + 1, 0))
    ELSE IF value <= 29
    THEN LET extra_bits == (value \div 2) - 1
             base       == u16(((value % 2) + 2) * 2^extra_bits) + 1
         IN  TokenOk(Token("Distance", 0, base, extra_bits))
    ELSE IF value <= 31 THEN TokenErr("ReservedSymbol")
    ELSE TokenErr("NotACode")

\* tests::Value: every code word is a token.
Value_try_from(value) == TokenOk(Token("Value", value, 0, 0))

\* T::try_from(word) for the alphabet T.
try_from(T, value) ==
    CASE T = "TreeCodeToken" -> TreeCodeToken_try_from(value)
      [] T = "LitLenToken"   -> LitLenToken_try_from(value)
      [] T = "DistanceToken" -> DistanceToken_try_from(value)
      [] OTHER               -> Value_try_from(value)

----------------------------------------------------------------------------
(* huffman_coding.rs: HuffmanCoding.  The map is a function from           *)
(* BitSequence records to tokens.                                          *)

MAX_BITS == 15

EmptyMap == [k \in {} |-> NoToken]

\* bl_count of from_lengths, with bl_count[0] forced to 0.
bl_count(code_lengths) ==
    [len \in 0..MAX_BITS |->
        IF len = 0 THEN 0
        ELSE Cardinality({i \in DOMAIN code_lengths : code_lengths[i] = len})]

\* first_code without the count of the shorter codes: code = code << 1.
first_code_without_count(bl, length) == 0

\* The loop "code = (code + bl_count[length - 1]) << 1" of from_lengths.
RECURSIVE first_code(_, _)
first_code(bl, length) ==
    IF length = 0 THEN 0 ELSE (first_code(bl, length - 1) + bl[length - 1]) * 2

\* HashMap::insert: a key already present gets the new value.
map_insert(map, k, v) == [x \in DOMAIN map \cup {k} |-> IF x = k THEN v ELSE map[x]]

\* The state of the assignment loop of from_lengths after a failure.
LoopErr(e) == [ok |-> FALSE, err |-> e, next_code |-> <<>>, map |-> EmptyMap]

\* An iteration of the assignment loop that leaves next_code as it was.
from_lengths_step_without_increment(st, code_lengths, T, i) ==
    IF ~st.ok \/ code_lengths[i] = 0 THEN st
    ELSE Bind(code_lengths[i], LAMBDA length :
            IF ~(st.next_code[length] < 2^(length + 1)) THEN LoopErr("MalformedCode")
            ELSE Bind(try_from(T, i - 1), LAMBDA token :
                    IF ~token.ok THEN LoopErr(token.err)
                    ELSE [st EXCEPT !.map = map_insert(
                                st.map, BitSequence(u16(st.next_code[length]), length),
                                token.token)]))

\* One iteration of the assignment loop of from_lengths, for the i-th
\* length (1-based; the code word is i - 1).  st is [ok, err, next_code,
\* map]; an iteration after a failure does not happen.
from_lengths_step(st, code_lengths, T, i) ==
    IF ~st.ok \/ code_lengths[i] = 0 THEN st
    ELSE Bind(code_lengths[i], LAMBDA length :
            IF ~(st.next_code[length] < 2^(length + 1)) THEN LoopErr("MalformedCode")
            ELSE IF i - 1 > 65535 THEN LoopErr("TooManyLengths")
            ELSE Bind(try_from(T, i - 1), LAMBDA token :
                    IF ~token.ok THEN LoopErr(token.err)
                    ELSE [ok |-> TRUE, err |-> "",
                          next_code |-> [st.next_code EXCEPT ![length] = @ + 1],
                          map |-> map_insert(st.map,
                                             BitSequence(u16(st.next_code[length]), length),
                                             token.token)]))

\* The iterations lo..hi of the assignment loop, in order.
RECURSIVE from_lengths_loop(_, _, _, _, _)
from_lengths_loop(st, code_lengths, T, lo, hi) ==
    IF lo > hi THEN st
    ELSE IF lo = hi THEN from_lengths_step(st, code_lengths, T, lo)
    ELSE Bind(from_lengths_loop(st, code_lengths, T, lo, (lo + hi) \div 2), LAMBDA mid :
            from_lengths_loop(mid, code_lengths, T, ((lo + hi) \div 2) + 1, hi))

\* HuffmanCoding::<T>::from_lengths
from_lengths(lengths, T) ==
    Bind(lengths, LAMBDA code_lengths :
        IF \E i \in DOMAIN code_lengths : code_lengths[i] > MAX_BITS
        THEN [ok |-> FALSE, err |-> "LengthTooLong", map |-> EmptyMap]
        ELSE Bind(bl_count(code_lengths), LAMBDA bl :
             Bind(from_lengths_loop([ok |-> TRUE, err |-> "",
                                     next_code |-> [length \in 0..MAX_BITS |->
                                                        first_code(bl, length)],
                                     map |-> EmptyMap],
                                    code_lengths, T, 1, Len(code_lengths)), LAMBDA st :
                [ok |-> st.ok, err |-> st.err, map |-> st.map])))

\* HuffmanCoding::decode_symbol
decode_symbol(map, seq) ==
    IF seq \in DOMAIN map THEN [some |-> TRUE, token |-> map[seq]]
    ELSE [some |-> FALSE, token |-> NoToken]

\* The for loop of read_symbol after k bits have been read into `code`.
RECURSIVE read_symbol_loop(_, _, _, _)
read_symbol_loop(map, br, code, k) ==
    IF k >= MAX_BITS
    THEN [ok |-> FALSE, err |-> "MalformedCode", br |-> br, token |-> NoToken]
    ELSE Bind(read_bits(br, 1), LAMBDA new_bit :
            IF ~new_bit.ok
            THEN [ok |-> FALSE, err |-> new_bit.err, br |-> new_bit.br, token |-> NoToken]
            ELSE Bind(concat(code, new_bit.val), LAMBDA c :
                    Bind(decode_symbol(map, c), LAMBDA d :
                        IF d.some
                        THEN [ok |-> TRUE, err |-> "", br |-> new_bit.br, token |-> d.token]
                        ELSE read_symbol_loop(map, new_bit.br, c, k + 1))))

\* HuffmanCoding::read_symbol
read_symbol(map, br) == read_symbol_loop(map, br, BitSequence(0, 0), 0)

\* build_fixed_trees
Repeat(x, n) == [i \in 1..n |-> x]

build_fixed_trees ==
    LET litlen_tree_lengths   == Repeat(8, 144) \o Repeat(9, 112) \o Repeat(7, 24) \o Repeat(8, 8)
        distance_tree_lengths == Repeat(5, 32)
    IN  Bind(from_lengths(litlen_tree_lengths, "LitLenToken"), LAMBDA l :
            IF ~l.ok
            THEN [ok |-> FALSE, err |-> l.err, litlen |-> EmptyMap, dist |-> EmptyMap]
            ELSE Bind(from_lengths(distance_tree_lengths, "DistanceToken"), LAMBDA d :
                    IF ~d.ok
                    THEN [ok |-> FALSE, err |-> d.err, litlen |-> EmptyMap, dist |-> EmptyMap]
                    ELSE [ok |-> TRUE, err |-> "", litlen |-> l.map, dist |-> d.map]))

\* read_codelen_length
read_codelen_length(br) == read_bits(br, 3)

\* The reads of build_codelen_coding: position k (0-based) of the input
\* goes to index 16, 17, 18, 0 and then to j = 8 + i/2 or 7 - i/2, i = k - 4.
codelen_index(k) ==
    IF k = 0 THEN 16 ELSE IF k = 1 THEN 17 ELSE IF k = 2 THEN 18 ELSE IF k = 3 THEN 0
    ELSE LET i == k - 4
         IN  IF i % 2 = 0 THEN 8 + (i \div 2) ELSE 7 - (i \div 2)

RECURSIVE read_codelen_lengths(_, _, _, _)
read_codelen_lengths(br, codelen_code_lengths, k, codelen_codes_count) ==
    IF k >= codelen_codes_count
    THEN [ok |-> TRUE, err |-> "", br |-> br, lengths |-> codelen_code_lengths]
    ELSE Bind(read_codelen_length(br), LAMBDA r :
            IF ~r.ok
            THEN [ok |-> FALSE, err |-> r.err, br |-> r.br, lengths |-> codelen_code_lengths]
            ELSE Bind([codelen_code_lengths EXCEPT ![codelen_index(k) + 1] = r.val.bits],
                      LAMBDA lengths :
                        read_codelen_lengths(r.br, lengths, k + 1, codelen_codes_count)))

\* build_codelen_coding
build_codelen_coding(br, codelen_codes_count) ==
    Bind(read_codelen_lengths(br, Repeat(0, 19), 0, codelen_codes_count), LAMBDA r :
        IF ~r.ok
        THEN [ok |-> FALSE, err |-> r.err, br |-> r.br, map |-> EmptyMap]
        ELSE Bind(from_lengths(r.lengths, "TreeCodeToken"), LAMBDA c :
                [ok |-> c.ok, err |-> c.err, br |-> r.br, map |-> c.map]))

\* The while loop of decode_litlen_distance_trees.
RECURSIVE decode_code_lengths(_, _, _, _)
decode_code_lengths(codelen_coding, br, code_lengths, total) ==
    IF Len(code_lengths) >= total
    THEN [ok |-> TRUE, err |-> "", br |-> br, code_lengths |-> code_lengths]
    ELSE Bind(read_symbol(codelen_coding, br), LAMBDA t :
            IF ~t.ok
            THEN [ok |-> FALSE, err |-> t.err, br |-> t.br, code_lengths |-> code_lengths]
            ELSE IF t.token.kind = "Length"
            THEN Bind(Append(code_lengths, t.token.val), LAMBDA extended :
                    decode_code_lengths(codelen_coding, t.br, extended, total))
            ELSE Bind(read_bits(t.br, IF t.token.kind = "CopyPrev" THEN 2
                                      ELSE t.token.extra_bits), LAMBDA o :
                    IF ~o.ok
                    THEN [ok |-> FALSE, err |-> o.err, br |-> o.br,
                          code_lengths |-> code_lengths]
                    ELSE IF t.token.kind = "CopyPrev" /\ code_lengths = <<>>
                    THEN [ok |-> FALSE, err |-> "NoPrevLength", br |-> o.br,
                          code_lengths |-> code_lengths]
                    ELSE Bind(IF t.token.kind = "CopyPrev"
                              THEN code_lengths \o Repeat(code_lengths[Len(code_lengths)],
                                                          3 + o.val.bits)
                              ELSE code_lengths \o Repeat(0, t.token.base + o.val.bits),
                              LAMBDA extended :
                                decode_code_lengths(codelen_coding, o.br, extended, total))))

TreesErr(e, br) ==
    [ok |-> FALSE, err |-> e, br |-> br, litlen |-> EmptyMap, dist |-> EmptyMap]

\* The tail of decode_litlen_distance_trees: the two from_lengths calls.
trees_from_lengths(code_lengths, litlen_codes_count, br) ==
    Bind(from_lengths(SubSeq(code_lengths, 1, litlen_codes_count), "LitLenToken"), LAMBDA l :
        IF ~l.ok THEN TreesErr(l.err, br)
        ELSE Bind(from_lengths(SubSeq(code_lengths, litlen_codes_count + 1,
                                      Len(code_lengths)), "DistanceToken"), LAMBDA d :
                IF ~d.ok THEN TreesErr(d.err, br)
                ELSE [ok |-> TRUE, err |-> "", br |-> br, litlen |-> l.map, dist |-> d.map]))

\* decode_litlen_distance_trees
decode_litlen_distance_trees(br) ==
    Bind(read_bits(br, 5), LAMBDA hlit :
      IF ~hlit.ok THEN TreesErr(hlit.err, hlit.br) ELSE
    Bind(read_bits(hlit.br, 5), LAMBDA hdist :
      IF ~hdist.ok THEN TreesErr(hdist.err, hdist.br) ELSE
    Bind(read_bits(hdist.br, 4), LAMBDA hclen :
      IF ~hclen.ok THEN TreesErr(hclen.err, hclen.br) ELSE
    Bind(build_codelen_coding(hclen.br, hclen.val.bits + 4), LAMBDA codelen_coding :
      IF ~codelen_coding.ok THEN TreesErr(codelen_coding.err, codelen_coding.br) ELSE
    Bind(decode_code_lengths(codelen_coding.map, codelen_coding.br, <<>>,
                             (hlit.val.bits + 257) + (hdist.val.bits + 1)), LAMBDA c :
      IF ~c.ok THEN TreesErr(c.err, c.br)
      ELSE IF Len(c.code_lengths) > (hlit.val.bits + 257) + (hdist.val.bits + 1)
      THEN TreesErr("OverrunLengths", c.br)
      ELSE trees_from_lengths(c.code_lengths, hlit.val.bits + 257, c.br))))))

----------------------------------------------------------------------------
(* The byte source R (std::io::BufRead over bytes in memory) and the       *)
(* byteorder reads on it.  A read that meets the end of the input fails    *)
(* with UnexpectedEof and has consumed what was left.                      *)

\* ReadBytesExt::read_u8
src_read_u8(s) ==
    IF s = <<>> THEN [ok |-> FALSE, stream |-> s, val |-> 0]
    ELSE [ok |-> TRUE, stream |-> Tail(s), val |-> Head(s)]

\* Read::read_exact
src_read_exact(s, n) ==
    IF Len(s) < n THEN [ok |-> FALSE, stream |-> <<>>, bytes |-> <<>>]
    ELSE [ok |-> TRUE, stream |-> SubSeq(s, n + 1, Len(s)), bytes |-> SubSeq(s, 1, n)]

\* ReadBytesExt::read_u16::<LittleEndian>
src_read_u16(s) ==
    Bind(src_read_exact(s, 2), LAMBDA r :
        [ok |-> r.ok, stream |-> r.stream,
         val |-> IF r.ok THEN u16_from_le(r.bytes[1], r.bytes[2]) ELSE 0])

\* ReadBytesExt::read_u32::<LittleEndian>
src_read_u32(s) ==
    Bind(src_read_exact(s, 4), LAMBDA r :
        [ok |-> r.ok, stream |-> r.stream,
         val |-> IF r.ok THEN u32_from_le(r.bytes[1], r.bytes[2], r.bytes[3], r.bytes[4])
                 ELSE <<0, 0>>])

\* BufRead::read_until(0, buffer): the bytes up to and including the first
\* 0, or all the bytes left when there is none.
src_read_until_nul(s) ==
    LET zeros == {i \in DOMAIN s : s[i] = 0}
        n     == IF zeros = {} THEN Len(s)
                 ELSE CHOOSE i \in zeros : \A j \in zeros : i <= j
    IN  [stream |-> SubSeq(s, n + 1, Len(s)), buffer |-> SubSeq(s, 1, n)]

----------------------------------------------------------------------------
(* deflate.rs                                                              *)

\* DeflateReader::read_header
read_block_header(br) ==
    Bind(read_bits(br, 1), LAMBDA bfinal :
        IF ~bfinal.ok
        THEN [ok |-> FALSE, err |-> bfinal.err, br |-> bfinal.br, header |-> NoHeader]
        ELSE Bind(read_bits(bfinal.br, 2), LAMBDA btype :
            IF ~btype.ok
            THEN [ok |-> FALSE, err |-> btype.err, br |-> btype.br, header |-> NoHeader]
            ELSE [ok |-> TRUE, err |-> "", br |-> btype.br,
                  header |-> [is_final |-> (bfinal.val.bits = 1),
                              compression_type |->
                                  CASE btype.val.bits = 0 -> "Uncompressed"
                                    [] btype.val.bits = 1 -> "FixedTree"
                                    [] btype.val.bits = 2 -> "DynamicTree"
                                    [] btype.val.bits = 3 -> "Reserved"]]))

\* The result of a step of a block that left the byte source at `s`.
BlockResult(ok, err, b, s, w) ==
    [ok |-> ok, err |-> err, br |-> [b EXCEPT !.stream = s], w |-> w]

\* DeflateBlock::process_uncompressed
process_uncompressed(br, w) ==
    Bind(borrow_reader_from_boundary(br), LAMBDA b :
    Bind(src_read_u16(b.stream), LAMBDA len :
      IF ~len.ok THEN BlockResult(FALSE, "UnexpectedEof", b, len.stream, w) ELSE
    Bind(src_read_u16(len.stream), LAMBDA nlen :
      IF ~nlen.ok THEN BlockResult(FALSE, "UnexpectedEof", b, nlen.stream, w)
      ELSE IF len.val # 65535 - nlen.val
      THEN BlockResult(FALSE, "StoredLengthMismatch", b, nlen.stream, w) ELSE
    Bind(src_read_exact(nlen.stream, len.val), LAMBDA buf :
      IF ~buf.ok THEN BlockResult(FALSE, "UnexpectedEof", b, buf.stream, w) ELSE
    Bind(write_all(w, buf.bytes), LAMBDA r :
      BlockResult(r.ok, r.err, b, buf.stream, r.w))))))

\* process_length_token ignoring the result of write_previous.
process_length_token_ignoring_error(br, w, len_base, len_extra_bits, distance_tree) ==
    Bind(read_bits(br, len_extra_bits), LAMBDA len_offset :
      IF ~len_offset.ok
      THEN [ok |-> FALSE, err |-> len_offset.err, br |-> len_offset.br, w |-> w] ELSE
    Bind(read_symbol(distance_tree, len_offset.br), LAMBDA distance_token :
      IF ~distance_token.ok
      THEN [ok |-> FALSE, err |-> distance_token.err, br |-> distance_token.br, w |-> w] ELSE
    Bind(read_bits(distance_token.br, distance_token.token.extra_bits), LAMBDA dist_offset :
      IF ~dist_offset.ok
      THEN [ok |-> FALSE, err |-> dist_offset.err, br |-> dist_offset.br, w |-> w] ELSE
    Bind(write_previous(w, u16(distance_token.token.base + dist_offset.val.bits),
                        u16(len_base + len_offset.val.bits)), LAMBDA r :
      [ok |-> TRUE, err |-> "", br |-> dist_offset.br, w |-> r.w]))))

\* DeflateBlock::process_length_token
process_length_token(br, w, len_base, len_extra_bits, distance_tree) ==
    Bind(read_bits(br, len_extra_bits), LAMBDA len_offset :
      IF ~len_offset.ok
      THEN [ok |-> FALSE, err |-> len_offset.err, br |-> len_offset.br, w |-> w] ELSE
    Bind(read_symbol(distance_tree, len_offset.br), LAMBDA distance_token :
      IF ~distance_token.ok
      THEN [ok |-> FALSE, err |-> distance_token.err, br |-> distance_token.br, w |-> w] ELSE
    Bind(read_bits(distance_token.br, distance_token.token.extra_bits), LAMBDA dist_offset :
      IF ~dist_offset.ok
      THEN [ok |-> FALSE, err |-> dist_offset.err, br |-> dist_offset.br, w |-> w] ELSE
    Bind(write_previous(w, u16(distance_token.token.base + dist_offset.val.bits),
                        u16(len_base + len_offset.val.bits)), LAMBDA r :
      [ok |-> r.ok, err |-> r.err, br |-> dist_offset.br, w |-> r.w]))))

\* DeflateBlock::process_with_trees
RECURSIVE process_with_trees(_, _, _, _)
process_with_trees(br, w, litlen_tree, distance_tree) ==
    Bind(read_symbol(litlen_tree, br), LAMBDA t :
        IF ~t.ok
        THEN [ok |-> FALSE, err |-> t.err, br |-> t.br, w |-> w]
        ELSE IF t.token.kind = "Literal"
        THEN Bind(write_u8(w, t.token.val), LAMBDA r :
                IF ~r.ok
                THEN [ok |-> FALSE, err |-> r.err, br |-> t.br, w |-> r.w]
                ELSE process_with_trees(t.br, r.w, litlen_tree, distance_tree))
        ELSE IF t.token.kind = "Length"
        THEN Bind(process_length_token(t.br, w, t.token.base, t.token.extra_bits,
                                       distance_tree), LAMBDA r :
                IF ~r.ok
                THEN r
                ELSE process_with_trees(r.br, r.w, litlen_tree, distance_tree))
        ELSE [ok |-> TRUE, err |-> "", br |-> t.br, w |-> w])

\* The trees of a block of the given type: build_fixed_trees for FixedTree,
\* decode_litlen_distance_trees for DynamicTree.
block_trees(br, compression_type) ==
    IF compression_type = "FixedTree"
    THEN Bind(build_fixed_trees, LAMBDA fixed :
            [ok |-> fixed.ok, err |-> fixed.err, br |-> br,
             litlen |-> fixed.litlen, dist |-> fixed.dist])
    ELSE decode_litlen_distance_trees(br)

\* DeflateBlock::read_content
read_content(br, w, h) ==
    IF h.compression_type = "Reserved"
    THEN [ok |-> FALSE, err |-> "ReservedBlockType", br |-> br, w |-> w]
    ELSE IF h.compression_type = "Uncompressed"
    THEN process_uncompressed(br, w)
    ELSE Bind(block_trees(br, h.compression_type), LAMBDA trees :
            IF ~trees.ok
            THEN [ok |-> FALSE, err |-> trees.err, br |-> trees.br, w |-> w]
            ELSE process_with_trees(trees.br, w, trees.litlen, trees.dist))

----------------------------------------------------------------------------
(* gzip.rs                                                                 *)

ID1 == 31
ID2 == 139
CM_DEFLATE == 8
FTEXT_OFFSET == 0
FHCRC_OFFSET == 1
FEXTRA_OFFSET == 2
FNAME_OFFSET == 3
FCOMMENT_OFFSET == 4

\* Option<T>
None == [some |-> FALSE, val |-> <<>>]
Some(v) == [some |-> TRUE, val |-> v]

\* impl From<u8> for CompressionMethod
CompressionMethod_from(value) ==
    IF value = CM_DEFLATE THEN [kind |-> "Deflate", x |-> 0]
    ELSE [kind |-> "Unknown", x |-> value]

\* impl From<CompressionMethod> for u8
CompressionMethod_into_u8(method) ==
    IF method.kind = "Deflate" THEN CM_DEFLATE ELSE method.x

\* MemberFlags::bit
bit(f, n) == BitAnd(f \div 2^n, 1) # 0

\* MemberFlags::set_bit
set_bit(f, n, value) ==
    IF value THEN BitOr(f, 2^n) ELSE BitAnd(f, 255 - 2^n)

\* MemberHeader::flags
flags(h) ==
    LET f1 == set_bit(0, FTEXT_OFFSET, h.is_text)
        f2 == set_bit(f1, FHCRC_OFFSET, h.has_crc)
        f3 == set_bit(f2, FEXTRA_OFFSET, h.extra.some)
        f4 == set_bit(f3, FNAME_OFFSET, h.name.some)
    IN  set_bit(f4, FCOMMENT_OFFSET, h.comment.some)

\* MemberHeader::crc16.  name and comment are the Strings read_null_term_string
\* returned.
crc16(h) ==
    Bind(<<ID1, ID2, CompressionMethod_into_u8(h.compression_method), flags(h)>>
         \o u32_to_le_bytes(h.modification_time)
         \o <<h.extra_flags, h.os>>
         \o (IF h.extra.some
             THEN u16_to_le_bytes(u16(Len(h.extra.val))) \o h.extra.val ELSE <<>>)
         \o (IF h.name.some THEN h.name.val \o <<0>> ELSE <<>>)
         \o (IF h.comment.some THEN h.comment.val \o <<0>> ELSE <<>>),
         LAMBDA updates : digest_finalize(digest_update(CrcInit, updates))[1])

\* String::from_utf8: whether the bytes are well-formed UTF-8.
RECURSIVE is_utf8(_)
is_utf8(b) ==
    LET cont(i, lo, hi) == Len(b) >= i /\ b[i] >= lo /\ b[i] <= hi
        rest(n) == SubSeq(b, n + 1, Len(b))
        c == b[1]
    IN  IF b = <<>> THEN TRUE
        ELSE IF c <= 127 THEN is_utf8(rest(1))
        ELSE IF c >= 194 /\ c <= 223
        THEN cont(2, 128, 191) /\ is_utf8(rest(2))
        ELSE IF c = 224
        THEN cont(2, 160, 191) /\ cont(3, 128, 191) /\ is_utf8(rest(3))
        ELSE IF (c >= 225 /\ c <= 236) \/ c = 238 \/ c = 239
        THEN cont(2, 128, 191) /\ cont(3, 128, 191) /\ is_utf8(rest(3))
        ELSE IF c = 237
        THEN cont(2, 128, 159) /\ cont(3, 128, 191) /\ is_utf8(rest(3))
        ELSE IF c = 240
        THEN cont(2, 144, 191) /\ cont(3, 128, 191) /\ cont(4, 128, 191) /\ is_utf8(rest(4))
        ELSE IF c >= 241 /\ c <= 243
        THEN cont(2, 128, 191) /\ cont(3, 128, 191) /\ cont(4, 128, 191) /\ is_utf8(rest(4))
        ELSE IF c = 244
        THEN cont(2, 128, 143) /\ cont(3, 128, 191) /\ cont(4, 128, 191) /\ is_utf8(rest(4))
        ELSE FALSE

\* GzipReader::read_null_term_string
read_null_term_string(s) ==
    Bind(src_read_until_nul(s), LAMBDA r :
        IF r.buffer = <<>>
        THEN [ok |-> FALSE, err |-> "UnterminatedString", stream |-> r.stream, val |-> <<>>]
        ELSE IF ~is_utf8(r.buffer)
        THEN [ok |-> FALSE, err |-> "InvalidUtf8", stream |-> r.stream, val |-> <<>>]
        ELSE [ok |-> TRUE, err |-> "", stream |-> r.stream, val |-> r.buffer])

\* GzipReader::read_modification_time
read_modification_time(s) ==
    Bind(src_read_u32(s), LAMBDA r :
        [ok |-> r.ok, err |-> IF r.ok THEN "" ELSE "UnexpectedEof",
         stream |-> r.stream, val |-> r.val])

\* GzipReader::read_extra
read_extra(s, has_extra) ==
    IF ~has_extra THEN [ok |-> TRUE, err |-> "", stream |-> s, opt |-> None]
    ELSE Bind(src_read_u16(s), LAMBDA len :
            IF ~len.ok
            THEN [ok |-> FALSE, err |-> "UnexpectedEof", stream |-> len.stream, opt |-> None]
            ELSE Bind(src_read_exact(len.stream, len.val), LAMBDA buf :
                    IF ~buf.ok
                    THEN [ok |-> FALSE, err |-> "UnexpectedEof",
                          stream |-> buf.stream, opt |-> None]
                    ELSE [ok |-> TRUE, err |-> "", stream |-> buf.stream,
                          opt |-> Some(buf.bytes)]))

\* GzipReader::read_name
read_name(s, has_name) ==
    IF ~has_name THEN [ok |-> TRUE, err |-> "", stream |-> s, opt |-> None]
    ELSE Bind(read_null_term_string(s), LAMBDA r :
            [ok |-> r.ok, err |-> r.err, stream |-> r.stream,
             opt |-> IF r.ok THEN Some(r.val) ELSE None])

\* GzipReader::read_comment
read_comment(s, has_comment) ==
    IF ~has_comment THEN [ok |-> TRUE, err |-> "", stream |-> s, opt |-> None]
    ELSE Bind(read_null_term_string(s), LAMBDA r :
            [ok |-> r.ok, err |-> r.err, stream |-> r.stream,
             opt |-> IF r.ok THEN Some(r.val) ELSE None])

NoMemberHeader ==
    [compression_method |-> CompressionMethod_from(0), modification_time |-> <<0, 0>>,
     extra |-> None, name |-> None, comment |-> None, extra_flags |-> 0, os |-> 0,
     has_crc |-> FALSE, is_text |-> FALSE]

HeaderErr(e, s) == [ok |-> FALSE, err |-> e, stream |-> s, header |-> NoMemberHeader]

\* The end of read_header: the header CRC, read and compared when FHCRC is set.
read_header_crc(s, h) ==
    IF h.has_crc
    THEN Bind(src_read_u16(s), LAMBDA c :
            IF ~c.ok THEN HeaderErr("UnexpectedEof", c.stream)
            ELSE IF crc16(h) # c.val THEN HeaderErr("HeaderCrcMismatch", c.stream)
            ELSE [ok |-> TRUE, err |-> "", stream |-> c.stream, header |-> h])
    ELSE [ok |-> TRUE, err |-> "", stream |-> s, header |-> h]

\* GzipReader::read_header
read_header(s) ==
    Bind(src_read_u8(s), LAMBDA id1 :
      IF ~id1.ok THEN HeaderErr("UnexpectedEof", id1.stream) ELSE
    Bind(src_read_u8(id1.stream), LAMBDA id2 :
      IF ~id2.ok THEN HeaderErr("UnexpectedEof", id2.stream)
      ELSE IF ~(id1.val = ID1 /\ id2.val = ID2) THEN HeaderErr("BadMagic", id2.stream) ELSE
    Bind(src_read_u8(id2.stream), LAMBDA cm :
      IF ~cm.ok THEN HeaderErr("UnexpectedEof", cm.stream) ELSE
    Bind(src_read_u8(cm.stream), LAMBDA member_flags :
      IF ~member_flags.ok THEN HeaderErr("UnexpectedEof", member_flags.stream) ELSE
    Bind(read_modification_time(member_flags.stream), LAMBDA mtime :
      IF ~mtime.ok THEN HeaderErr(mtime.err, mtime.stream) ELSE
    Bind(src_read_u8(mtime.stream), LAMBDA xfl :
      IF ~xfl.ok THEN HeaderErr("UnexpectedEof", xfl.stream) ELSE
    Bind(src_read_u8(xfl.stream), LAMBDA os :
      IF ~os.ok THEN HeaderErr("UnexpectedEof", os.stream) ELSE
    Bind(read_extra(os.stream, bit(member_flags.val, FEXTRA_OFFSET)), LAMBDA extra :
      IF ~extra.ok THEN HeaderErr(extra.err, extra.stream) ELSE
    Bind(read_name(extra.stream, bit(member_flags.val, FNAME_OFFSET)), LAMBDA name :
      IF ~name.ok THEN HeaderErr(name.err, name.stream) ELSE
    Bind(read_comment(name.stream, bit(member_flags.val, FCOMMENT_OFFSET)), LAMBDA comment :
      IF ~comment.ok THEN HeaderErr(comment.err, comment.stream) ELSE
      read_header_crc(comment.stream,
                      [compression_method |-> CompressionMethod_from(cm.val),
                       modification_time  |-> mtime.val,
                       extra              |-> extra.opt,
                       name               |-> name.opt,
                       comment            |-> comment.opt,
                       extra_flags        |-> xfl.val,
                       os                 |-> os.val,
                       has_crc            |-> bit(member_flags.val, FHCRC_OFFSET),
                       is_text            |-> bit(member_flags.val, FTEXT_OFFSET)])))))))))))

\* GzipReader::new
GzipReader_new(reader, underlying_writer) ==
    [reader |-> reader, underlying_writer |-> underlying_writer]

\* DeflateReader::new
DeflateReader_new(bit_reader, w) ==
    [bit_reader |-> bit_reader, writer |-> w, is_exhausted |-> FALSE]

\* GzipReader::next_member
next_member(g) ==
    Bind(read_header(g.reader), LAMBDA h :
        [ok  |-> h.ok /\ h.header.compression_method.kind # "Unknown",
         err |-> IF ~h.ok THEN h.err
                 ELSE IF h.header.compression_method.kind = "Unknown"
                 THEN "UnsupportedMethod" ELSE "",
         stream |-> h.stream, header |-> h.header,
         deflate_reader |-> DeflateReader_new(BitReader_new(h.stream),
                                              TrackingWriter_new(g.underlying_writer))])

\* GzipReader::is_empty: fill_buf() on bytes in memory never fails.
is_empty(g) == g.reader = <<>>

\* GzipFooter::new
GzipFooter_new(reader, w) == [reader |-> reader, writer |-> w]

NoFooter == [data_crc32 |-> <<0, 0>>, data_size |-> <<0, 0>>]

\* The result of read_footer with the byte source left at `s`.
FooterResult(ok, err, footer, s, inner) ==
    [ok |-> ok, err |-> err, footer |-> footer, gzip_reader |-> GzipReader_new(s, inner)]

\* read_footer without the CRC comparison.
read_footer_no_crc_check(f) ==
    Bind(src_read_u32(f.reader), LAMBDA data_crc32 :
      IF ~data_crc32.ok
      THEN FooterResult(FALSE, "UnexpectedEof", NoFooter, data_crc32.stream, f.writer.inner)
      ELSE
    Bind(src_read_u32(data_crc32.stream), LAMBDA data_size :
      IF ~data_size.ok
      THEN FooterResult(FALSE, "UnexpectedEof", NoFooter, data_size.stream, f.writer.inner)
      ELSE
    Bind([data_crc32 |-> data_crc32.val, data_size |-> data_size.val], LAMBDA footer :
      IF byte_count(f.writer) # u32_as_usize(footer.data_size)
      THEN FooterResult(FALSE, "LengthMismatch", footer, data_size.stream, f.writer.inner)
      ELSE
    Bind(crc32(f.writer), LAMBDA c :
      FooterResult(TRUE, "", footer, data_size.stream, c.inner)))))

\* GzipFooter::read_footer
read_footer(f) ==
    Bind(src_read_u32(f.reader), LAMBDA data_crc32 :
      IF ~data_crc32.ok
      THEN FooterResult(FALSE, "UnexpectedEof", NoFooter, data_crc32.stream, f.writer.inner)
      ELSE
    Bind(src_read_u32(data_crc32.stream), LAMBDA data_size :
      IF ~data_size.ok
      THEN FooterResult(FALSE, "UnexpectedEof", NoFooter, data_size.stream, f.writer.inner)
      ELSE
    Bind([data_crc32 |-> data_crc32.val, data_size |-> data_size.val], LAMBDA footer :
      IF byte_count(f.writer) # u32_as_usize(footer.data_size)
      THEN FooterResult(FALSE, "LengthMismatch", footer, data_size.stream, f.writer.inner)
      ELSE
    Bind(crc32(f.writer), LAMBDA c :
      IF c.crc # footer.data_crc32
      THEN FooterResult(FALSE, "CrcMismatch", footer, data_size.stream, f.writer.inner)
      ELSE FooterResult(TRUE, "", footer, data_size.stream, c.inner)))))

----------------------------------------------------------------------------
(* The inputs of decompress: gzip files built with a reference encoder.    *)
(* valid: a standards-compliant gzip file of `payload` (of `members`       *)
(* members); fixed_literals: one member whose payload is a single final   *)
(* fixed-Huffman block of literals.  For a file that is not valid,        *)
(* `written` is what a reference decoder has decoded when it meets the    *)
(* fault.                                                                 *)

Sample(name, bytes, valid, payload, written, members, fixed_literals) ==
    [name |-> name, bytes |-> bytes, valid |-> valid, payload |-> payload,
     written |-> written, members |-> members, fixed_literals |-> fixed_literals]

Samples ==
    { Sample("empty_stored", <<31, 139, 8, 0, 0, 0, 0, 0, 0, 255, 1, 0, 0,
          255, 255, 0, 0, 0, 0, 0, 0, 0, 0>>, TRUE, <<>>, <<>>, 1, FALSE),
      Sample("ab_stored", <<31, 139, 8, 0, 0, 0, 0, 0, 0, 255, 1, 2, 0, 253,
          255, 97, 98, 109, 72, 131, 158, 2, 0, 0, 0>>, TRUE, <<97, 98>>,
          <<97, 98>>, 1, FALSE),
      Sample("two_stored_blocks", <<31, 139, 8, 0, 0, 0, 0, 0, 0, 255, 0, 1,
          0, 254, 255, 97, 1, 2, 0, 253, 255, 98, 99, 194, 65, 36, 53, 3, 0,
          0, 0>>, TRUE, <<97, 98, 99>>, <<97, 98, 99>>, 1, FALSE),
      Sample("hello_fixed", <<31, 139, 8, 0, 0, 0, 0, 0, 0, 255, 243, 72, 205,
          201, 201, 215, 81, 40, 207, 47, 202, 73, 81, 4, 0, 230, 198, 230,
          235, 13, 0, 0, 0>>, TRUE, <<72, 101, 108, 108, 111, 44, 32, 119,
          111, 114, 108, 100, 33>>, <<72, 101, 108, 108, 111, 44, 32, 119,
          111, 114, 108, 100, 33>>, 1, TRUE),
      Sample("a_fixed", <<31, 139, 8, 0, 0, 0, 0, 0, 0, 255, 75, 4, 0, 67,
          190, 183, 232, 1, 0, 0, 0>>, TRUE, <<97>>, <<97>>, 1, TRUE),
      Sample("dynamic_backref", <<31, 139, 8, 0, 0, 0, 0, 0, 0, 255, 37, 194,
          49, 13, 0, 0, 0, 131, 48, 173, 27, 254, 61, 112, 144, 116, 39, 2,
          24, 72, 45, 70, 9, 0, 0, 0>>, TRUE, <<97, 98, 99, 97, 98, 99, 97,
          98, 99>>, <<97, 98, 99, 97, 98, 99, 97, 98, 99>>, 1, FALSE),
      Sample("dynamic_literals", <<31, 139, 8, 0, 0, 0, 0, 0, 0, 255, 5, 192,
          129, 12, 0, 0, 0, 128, 48, 214, 231, 15, 209, 100, 238, 32, 42, 219,
          3, 0, 0, 0>>, TRUE, <<97, 98, 97>>, <<97, 98, 97>>, 1, FALSE),
      Sample("dynamic_run", <<31, 139, 8, 0, 0, 0, 0, 0, 0, 255, 29, 192, 1,
          9, 0, 0, 0, 128, 160, 219, 205, 15, 52, 6, 106, 62, 64, 210, 6, 0,
          0, 0>>, TRUE, <<120, 120, 120, 120, 120, 120>>, <<120, 120, 120,
          120, 120, 120>>, 1, FALSE),
      Sample("stored_then_dynamic", <<31, 139, 8, 0, 0, 0, 0, 0, 0, 255, 0, 2,
          0, 253, 255, 97, 98, 13, 194, 1, 9, 0, 0, 0, 128, 160, 177, 253,
          255, 144, 98, 50, 55, 173, 178, 92, 9, 0, 0, 0>>, TRUE, <<97, 98,
          99, 97, 98, 99, 99, 99, 99>>, <<97, 98, 99, 97, 98, 99, 99, 99,
          99>>, 1, FALSE),
      Sample("header_options", <<31, 139, 8, 29, 4, 3, 2, 1, 0, 255, 2, 0, 1,
          2, 110, 0, 99, 0, 1, 2, 0, 253, 255, 97, 98, 109, 72, 131, 158, 2,
          0, 0, 0>>, TRUE, <<97, 98>>, <<97, 98>>, 1, FALSE),
      Sample("header_fhcrc", <<31, 139, 8, 2, 0, 0, 0, 0, 0, 255, 144, 201, 1,
          2, 0, 253, 255, 97, 98, 109, 72, 131, 158, 2, 0, 0, 0>>, TRUE, <<97,
          98>>, <<97, 98>>, 1, FALSE),
      Sample("header_fname_fhcrc", <<31, 139, 8, 10, 0, 0, 0, 0, 0, 255, 110,
          0, 151, 190, 1, 2, 0, 253, 255, 97, 98, 109, 72, 131, 158, 2, 0, 0,
          0>>, TRUE, <<97, 98>>, <<97, 98>>, 1, FALSE),
      Sample("header_latin1_name", <<31, 139, 8, 8, 0, 0, 0, 0, 0, 255, 233,
          0, 1, 2, 0, 253, 255, 97, 98, 109, 72, 131, 158, 2, 0, 0, 0>>, TRUE,
          <<97, 98>>, <<97, 98>>, 1, FALSE),
      Sample("two_members_stored", <<31, 139, 8, 0, 0, 0, 0, 0, 0, 255, 1, 2,
          0, 253, 255, 97, 98, 109, 72, 131, 158, 2, 0, 0, 0, 31, 139, 8, 0,
          0, 0, 0, 0, 0, 255, 0, 1, 0, 254, 255, 97, 1, 2, 0, 253, 255, 98,
          99, 194, 65, 36, 53, 3, 0, 0, 0>>, TRUE, <<97, 98, 97, 98, 99>>,
          <<97, 98, 97, 98, 99>>, 2, FALSE),
      Sample("three_members", <<31, 139, 8, 0, 0, 0, 0, 0, 0, 255, 1, 2, 0,
          253, 255, 97, 98, 109, 72, 131, 158, 2, 0, 0, 0, 31, 139, 8, 0, 0,
          0, 0, 0, 0, 255, 37, 194, 49, 13, 0, 0, 0, 131, 48, 173, 27, 254,
          61, 112, 144, 116, 39, 2, 24, 72, 45, 70, 9, 0, 0, 0, 31, 139, 8, 0,
          0, 0, 0, 0, 0, 255, 1, 0, 0, 255, 255, 0, 0, 0, 0, 0, 0, 0, 0>>,
          TRUE, <<97, 98, 97, 98, 99, 97, 98, 99, 97, 98, 99>>, <<97, 98, 97,
          98, 99, 97, 98, 99, 97, 98, 99>>, 3, FALSE),
      Sample("stored_then_fixed_member", <<31, 139, 8, 0, 0, 0, 0, 0, 0, 255,
          1, 2, 0, 253, 255, 97, 98, 109, 72, 131, 158, 2, 0, 0, 0, 31, 139,
          8, 0, 0, 0, 0, 0, 0, 255, 243, 72, 205, 201, 201, 215, 81, 40, 207,
          47, 202, 73, 81, 4, 0, 230, 198, 230, 235, 13, 0, 0, 0>>, TRUE,
          <<97, 98, 72, 101, 108, 108, 111, 44, 32, 119, 111, 114, 108, 100,
          33>>, <<97, 98, 72, 101, 108, 108, 111, 44, 32, 119, 111, 114, 108,
          100, 33>>, 2, FALSE),
      Sample("dynamic_then_stored_member", <<31, 139, 8, 0, 0, 0, 0, 0, 0,
          255, 5, 192, 129, 12, 0, 0, 0, 128, 48, 214, 231, 15, 209, 100, 238,
          32, 42, 219, 3, 0, 0, 0, 31, 139, 8, 0, 0, 0, 0, 0, 0, 255, 1, 2, 0,
          253, 255, 97, 98, 109, 72, 131, 158, 2, 0, 0, 0>>, TRUE, <<97, 98,
          97, 97, 98>>, <<97, 98, 97, 97, 98>>, 2, FALSE),
      Sample("bad_magic", <<31, 140, 8, 0, 0, 0, 0, 0, 0, 255, 1, 2, 0, 253,
          255, 97, 98, 109, 72, 131, 158, 2, 0, 0, 0>>, FALSE, <<>>, <<>>, 0,
          FALSE),
      Sample("bad_method", <<31, 139, 7, 0, 0, 0, 0, 0, 0, 255, 1, 2, 0, 253,
          255, 97, 98, 109, 72, 131, 158, 2, 0, 0, 0>>, FALSE, <<>>, <<>>, 0,
          FALSE),
      Sample("truncated_header", <<31, 139, 8, 0, 0, 0>>, FALSE, <<>>, <<>>,
          0, FALSE),
      Sample("one_byte", <<31>>, FALSE, <<>>, <<>>, 0, FALSE),
      Sample("bad_crc", <<31, 139, 8, 0, 0, 0, 0, 0, 0, 255, 1, 2, 0, 253,
          255, 97, 98, 108, 72, 131, 158, 2, 0, 0, 0>>, FALSE, <<>>, <<97,
          98>>, 0, FALSE),
      Sample("bad_isize", <<31, 139, 8, 0, 0, 0, 0, 0, 0, 255, 1, 2, 0, 253,
          255, 97, 98, 109, 72, 131, 158, 3, 0, 0, 0>>, FALSE, <<>>, <<97,
          98>>, 0, FALSE),
      Sample("bad_isize_and_crc", <<31, 139, 8, 0, 0, 0, 0, 0, 0, 255, 1, 2,
          0, 253, 255, 97, 98, 0, 0, 0, 0, 0, 0, 0, 0>>, FALSE, <<>>, <<97,
          98>>, 0, FALSE),
      Sample("truncated_footer", <<31, 139, 8, 0, 0, 0, 0, 0, 0, 255, 1, 2, 0,
          253, 255, 97, 98, 109, 72, 131, 158, 2>>, FALSE, <<>>, <<97, 98>>,
          0, FALSE),
      Sample("truncated_stored", <<31, 139, 8, 0, 0, 0, 0, 0, 0, 255, 1, 2, 0,
          253, 255, 97>>, FALSE, <<>>, <<97>>, 0, FALSE),
      Sample("no_blocks", <<31, 139, 8, 0, 0, 0, 0, 0, 0, 255>>, FALSE, <<>>,
          <<>>, 0, FALSE),
      Sample("reserved_block_after_stored", <<31, 139, 8, 0, 0, 0, 0, 0, 0,
          255, 0, 1, 0, 254, 255, 97, 7, 67, 190, 183, 232, 1, 0, 0, 0>>,
          FALSE, <<>>, <<97>>, 0, FALSE),
      Sample("nlen_mismatch", <<31, 139, 8, 0, 0, 0, 0, 0, 0, 255, 1, 2, 0, 0,
          0, 97, 98, 109, 72, 131, 158, 2, 0, 0, 0>>, FALSE, <<>>, <<>>, 0,
          FALSE),
      Sample("backref_beyond_output", <<31, 139, 8, 0, 0, 0, 0, 0, 0, 255, 13,
          193, 1, 13, 0, 0, 0, 64, 176, 172, 244, 15, 193, 206, 12, 67, 190,
          183, 232, 1, 0, 0, 0>>, FALSE, <<>>, <<97>>, 0, FALSE),
      Sample("truncated_dynamic", <<31, 139, 8, 0, 0, 0, 0, 0, 0, 255, 37,
          194, 49, 13, 0, 0, 0, 131, 48, 173, 27, 254, 61, 112, 144, 116>>,
          FALSE, <<>>, <<97>>, 0, FALSE),
      Sample("trailing_byte_after_member", <<31, 139, 8, 0, 0, 0, 0, 0, 0,
          255, 1, 2, 0, 253, 255, 97, 98, 109, 72, 131, 158, 2, 0, 0, 0, 0>>,
          FALSE, <<>>, <<97, 98>>, 0, FALSE),
      Sample("bad_crc_then_member", <<31, 139, 8, 0, 0, 0, 0, 0, 0, 255, 1, 2,
          0, 253, 255, 97, 98, 108, 72, 131, 158, 2, 0, 0, 0, 31, 139, 8, 0,
          0, 0, 0, 0, 0, 255, 0, 1, 0, 254, 255, 97, 1, 2, 0, 253, 255, 98,
          99, 194, 65, 36, 53, 3, 0, 0, 0>>, FALSE, <<>>, <<97, 98>>, 0,
          FALSE),
      Sample("second_member_bad_crc", <<31, 139, 8, 0, 0, 0, 0, 0, 0, 255, 1,
          2, 0, 253, 255, 97, 98, 109, 72, 131, 158, 2, 0, 0, 0, 31, 139, 8,
          0, 0, 0, 0, 0, 0, 255, 0, 1, 0, 254, 255, 97, 1, 2, 0, 253, 255, 98,
          99, 5, 0, 0, 0, 3, 0, 0, 0>>, FALSE, <<>>, <<97, 98, 97, 98, 99>>,
          0, FALSE),
      Sample("second_member_truncated", <<31, 139, 8, 0, 0, 0, 0, 0, 0, 255,
          0, 1, 0, 254, 255, 97, 1, 2, 0, 253, 255, 98, 99, 194, 65, 36, 53,
          3, 0, 0, 0, 31, 139, 8, 0, 0, 0, 0, 0, 0, 255, 1, 2>>, FALSE, <<>>,
          <<97, 98, 99>>, 0, FALSE),
      Sample("fname_unterminated", <<31, 139, 8, 8, 0, 0, 0, 0, 0, 255, 110>>,
          FALSE, <<>>, <<>>, 0, FALSE),
      Sample("fhcrc_wrong", <<31, 139, 8, 2, 0, 0, 0, 0, 0, 255, 0, 0, 1, 2,
          0, 253, 255, 97, 98, 109, 72, 131, 158, 2, 0, 0, 0>>, FALSE, <<>>,
          <<>>, 0, FALSE),
      Sample("dynamic_then_stored_5", <<31, 139, 8, 0, 0, 0, 0, 0, 0, 255, 12,
          193, 1, 13, 0, 0, 0, 64, 176, 172, 244, 15, 193, 142, 43, 1, 0, 254,
          255, 99, 93, 188, 12, 241, 6, 0, 0, 0>>, TRUE, <<97, 98, 97, 98, 97,
          99>>, <<97, 98, 97, 98, 97, 99>>, 1, FALSE),
      Sample("dynamic_then_stored_7", <<31, 139, 8, 0, 0, 0, 0, 0, 0, 255, 4,
          192, 129, 8, 0, 0, 0, 0, 32, 214, 253, 37, 206, 0, 1, 0, 254, 255,
          98, 109, 72, 131, 158, 2, 0, 0, 0>>, TRUE, <<97, 98>>, <<97, 98>>,
          1, FALSE),
      Sample("dynamic_then_empty_stored", <<31, 139, 8, 0, 0, 0, 0, 0, 0, 255,
          4, 128, 1, 9, 0, 0, 0, 64, 182, 226, 255, 7, 97, 7, 0, 0, 255, 255,
          194, 65, 36, 53, 3, 0, 0, 0>>, TRUE, <<97, 98, 99>>, <<97, 98, 99>>,
          1, FALSE),
      Sample("two_dynamic_blocks", <<31, 139, 8, 0, 0, 0, 0, 0, 0, 255, 4,
          192, 129, 8, 0, 0, 0, 0, 32, 214, 253, 37, 206, 2, 224, 64, 6, 0, 0,
          0, 64, 152, 107, 249, 59, 124, 13, 194, 65, 36, 53, 3, 0, 0, 0>>,
          TRUE, <<97, 98, 99>>, <<97, 98, 99>>, 1, FALSE),
      Sample("nlen_mismatch_second_block", <<31, 139, 8, 0, 0, 0, 0, 0, 0,
          255, 0, 1, 0, 254, 255, 97, 1, 1, 0, 1, 0, 98, 109, 72, 131, 158, 2,
          0, 0, 0>>, FALSE, <<>>, <<97>>, 0, FALSE),
      Sample("reserved_block_after_dynamic", <<31, 139, 8, 0, 0, 0, 0, 0, 0,
          255, 4, 192, 129, 8, 0, 0, 0, 0, 32, 214, 253, 37, 206, 3, 67, 190,
          183, 232, 1, 0, 0, 0>>, FALSE, <<>>, <<97>>, 0, FALSE),
      Sample("stored_five", <<31, 139, 8, 0, 0, 0, 0, 0, 0, 255, 1, 5, 0, 250,
          255, 97, 98, 99, 100, 101, 101, 216, 135, 133, 5, 0, 0, 0>>, TRUE,
          <<97, 98, 99, 100, 101>>, <<97, 98, 99, 100, 101>>, 1, FALSE),
      Sample("stored_260", <<31, 139, 8, 0, 0, 0, 0, 0, 0, 255, 1, 4, 1, 251,
          254, 97, 98, 99, 100, 101, 97, 98, 99, 100, 101, 97, 98, 99, 100,
          101, 97, 98, 99, 100, 101, 97, 98, 99, 100, 101, 97, 98, 99, 100,
          101, 97, 98, 99, 100, 101, 97, 98, 99, 100, 101, 97, 98, 99, 100,
          101, 97, 98, 99, 100, 101, 97, 98, 99, 100, 101, 97, 98, 99, 100,
          101, 97, 98, 99, 100, 101, 97, 98, 99, 100, 101, 97, 98, 99, 100,
          101, 97, 98, 99, 100, 101, 97, 98, 99, 100, 101, 97, 98, 99, 100,
          101, 97, 98, 99, 100, 101, 97, 98, 99, 100, 101, 97, 98, 99, 100,
          101, 97, 98, 99, 100, 101, 97, 98, 99, 100, 101, 97, 98, 99, 100,
          101, 97, 98, 99, 100, 101, 97, 98, 99, 100, 101, 97, 98, 99, 100,
          101, 97, 98, 99, 100, 101, 97, 98, 99, 100, 101, 97, 98, 99, 100,
          101, 97, 98, 99, 100, 101, 97, 98, 99, 100, 101, 97, 98, 99, 100,
          101, 97, 98, 99, 100, 101, 97, 98, 99, 100, 101, 97, 98, 99, 100,
          101, 97, 98, 99, 100, 101, 97, 98, 99, 100, 101, 97, 98, 99, 100,
          101, 97, 98, 99, 100, 101, 97, 98, 99, 100, 101, 97, 98, 99, 100,
          101, 97, 98, 99, 100, 101, 97, 98, 99, 100, 101, 97, 98, 99, 100,
          101, 97, 98, 99, 100, 101, 97, 98, 99, 100, 101, 97, 98, 99, 100,
          101, 97, 98, 99, 100, 101, 97, 98, 99, 100, 101, 97, 98, 99, 100,
          101, 97, 98, 99, 100, 101, 192, 252, 142, 78, 4, 1, 0, 0>>, TRUE,
          <<97, 98, 99, 100, 101, 97, 98, 99, 100, 101, 97, 98, 99, 100, 101,
          97, 98, 99, 100, 101, 97, 98, 99, 100, 101, 97, 98, 99, 100, 101,
          97, 98, 99, 100, 101, 97, 98, 99, 100, 101, 97, 98, 99, 100, 101,
          97, 98, 99, 100, 101, 97, 98, 99, 100, 101, 97, 98, 99, 100, 101,
          97, 98, 99, 100, 101, 97, 98, 99, 100, 101, 97, 98, 99, 100, 101,
          97, 98, 99, 100, 101, 97, 98, 99, 100, 101, 97, 98, 99, 100, 101,
          97, 98, 99, 100, 101, 97, 98, 99, 100, 101, 97, 98, 99, 100, 101,
          97, 98, 99, 100, 101, 97, 98, 99, 100, 101, 97, 98, 99, 100, 101,
          97, 98, 99, 100, 101, 97, 98, 99, 100, 101, 97, 98, 99, 100, 101,
          97, 98, 99, 100, 101, 97, 98, 99, 100, 101, 97, 98, 99, 100, 101,
          97, 98, 99, 100, 101, 97, 98, 99, 100, 101, 97, 98, 99, 100, 101,
          97, 98, 99, 100, 101, 97, 98, 99, 100, 101, 97, 98, 99, 100, 101,
          97, 98, 99, 100, 101, 97, 98, 99, 100, 101, 97, 98, 99, 100, 101,
          97, 98, 99, 100, 101, 97, 98, 99, 100, 101, 97, 98, 99, 100, 101,
          97, 98, 99, 100, 101, 97, 98, 99, 100, 101, 97, 98, 99, 100, 101,
          97, 98, 99, 100, 101, 97, 98, 99, 100, 101, 97, 98, 99, 100, 101,
          97, 98, 99, 100, 101, 97, 98, 99, 100, 101, 97, 98, 99, 100, 101,
          97, 98, 99, 100, 101>>, <<97, 98, 99, 100, 101, 97, 98, 99, 100,
          101, 97, 98, 99, 100, 101, 97, 98, 99, 100, 101, 97, 98, 99, 100,
          101, 97, 98, 99, 100, 101, 97, 98, 99, 100, 101, 97, 98, 99, 100,
          101, 97, 98, 99, 100, 101, 97, 98, 99, 100, 101, 97, 98, 99, 100,
          101, 97, 98, 99, 100, 101, 97, 98, 99, 100, 101, 97, 98, 99, 100,
          101, 97, 98, 99, 100, 101, 97, 98, 99, 100, 101, 97, 98, 99, 100,
          101, 97, 98, 99, 100, 101, 97, 98, 99, 100, 101, 97, 98, 99, 100,
          101, 97, 98, 99, 100, 101, 97, 98, 99, 100, 101, 97, 98, 99, 100,
          101, 97, 98, 99, 100, 101, 97, 98, 99, 100, 101, 97, 98, 99, 100,
          101, 97, 98, 99, 100, 101, 97, 98, 99, 100, 101, 97, 98, 99, 100,
          101, 97, 98, 99, 100, 101, 97, 98, 99, 100, 101, 97, 98, 99, 100,
          101, 97, 98, 99, 100, 101, 97, 98, 99, 100, 101, 97, 98, 99, 100,
          101, 97, 98, 99, 100, 101, 97, 98, 99, 100, 101, 97, 98, 99, 100,
          101, 97, 98, 99, 100, 101, 97, 98, 99, 100, 101, 97, 98, 99, 100,
          101, 97, 98, 99, 100, 101, 97, 98, 99, 100, 101, 97, 98, 99, 100,
          101, 97, 98, 99, 100, 101, 97, 98, 99, 100, 101, 97, 98, 99, 100,
          101, 97, 98, 99, 100, 101, 97, 98, 99, 100, 101, 97, 98, 99, 100,
          101, 97, 98, 99, 100, 101, 97, 98, 99, 100, 101>>, 1, FALSE),
      Sample("fixed_then_dynamic", <<31, 139, 8, 0, 0, 0, 0, 0, 0, 255, 74, 4,
          20, 0, 7, 50, 0, 0, 0, 0, 194, 92, 203, 223, 225, 107, 194, 65, 36,
          53, 3, 0, 0, 0>>, TRUE, <<97, 98, 99>>, <<97, 98, 99>>, 1, FALSE) }

----------------------------------------------------------------------------
(* lib.rs: decompress as a state machine over the type-states GzipReader,  *)
(* DeflateReader, DeflateBlock and GzipFooter.  pc = "Ok" and pc = "Err"   *)
(* are the two returns of decompress.  In the GzipReader state only the    *)
(* inner field of `writer` (the underlying writer) is in use.              *)

PipeSinks ==
    { Sink(<<>>, NoLimit, NoLimit, FALSE),
      Sink(<<>>, 1, NoLimit, FALSE),
      Sink(<<>>, 2, 1, TRUE) }

NoSeen == [has |-> FALSE, crc |-> <<0, 0>>, isize |-> <<0, 0>>, out |-> <<>>,
           count |-> usize_zero, digest |-> CrcInit]

\* The bytes of the sink, and those accepted since the member began.
SinkData == writer.inner.data
MemberOut == SubSeq(SinkData, ghost.member_start + 1, Len(SinkData))

Init ==
    /\ \E s \in Samples :
        /\ stream = s.bytes
        /\ ghost = [sample |-> s, member_start |-> 0, sink_before |-> <<>>,
                    footers |-> <<>>, seen |-> NoSeen]
    /\ unread_bits = BitSequence(0, 0)
    /\ \E k \in PipeSinks : writer = TrackingWriter_new(k)
    /\ pc = "GzipReader"
    /\ is_exhausted = FALSE
    /\ header = NoHeader
    /\ result = NoResult

\* decompress: `while !gzip_reader.is_empty()?` ends the loop, Ok(()).
DecompressDone ==
    /\ pc = "GzipReader"
    /\ is_empty(GzipReader_new(stream, writer.inner))
    /\ pc' = "Ok"
    /\ result' = [op |-> "decompress", ok |-> TRUE, err |-> ""]
    /\ ghost' = [ghost EXCEPT !.sink_before = SinkData]
    /\ UNCHANGED <<stream, unread_bits, writer, is_exhausted, header>>

\* decompress: gzip_reader.next_member()
NextMember ==
    /\ pc = "GzipReader"
    /\ ~is_empty(GzipReader_new(stream, writer.inner))
    /\ \E r \in {next_member(GzipReader_new(stream, writer.inner))} :
        /\ stream' = r.stream
        /\ result' = [op |-> "next_member", ok |-> r.ok, err |-> r.err]
        /\ IF r.ok
           THEN /\ pc' = "DeflateReader"
                /\ unread_bits' = r.deflate_reader.bit_reader.unread_bits
                /\ writer' = r.deflate_reader.writer
                /\ is_exhausted' = r.deflate_reader.is_exhausted
           ELSE /\ pc' = "Err"
                /\ UNCHANGED <<unread_bits, writer, is_exhausted>>
    /\ ghost' = [ghost EXCEPT !.sink_before = SinkData,
                              !.member_start = Len(SinkData)]
    /\ UNCHANGED header

\* process_compressed_data: deflate_reader.next_block()
NextBlock ==
    /\ pc = "DeflateReader"
    /\ ghost' = [ghost EXCEPT !.sink_before = SinkData]
    /\ IF is_exhausted
       THEN /\ pc' = "GzipFooter"
            /\ stream' = into_inner([stream |-> stream, unread_bits |-> unread_bits])
            /\ unread_bits' = BitSequence(0, 0)
            /\ result' = [op |-> "next_block", ok |-> TRUE, err |-> ""]
            /\ UNCHANGED header
       ELSE \E r \in {read_block_header([stream |-> stream, unread_bits |-> unread_bits])} :
            /\ stream' = r.br.stream
            /\ unread_bits' = r.br.unread_bits
            /\ result' = [op |-> "next_block", ok |-> r.ok, err |-> r.err]
            /\ IF r.ok
               THEN pc' = "DeflateBlock" /\ header' = r.header
               ELSE pc' = "Err" /\ UNCHANGED header
    /\ UNCHANGED <<writer, is_exhausted>>

\* process_deflate_block: block.read_content()
ReadContent ==
    /\ pc = "DeflateBlock"
    /\ \E r \in {read_content([stream |-> stream, unread_bits |-> unread_bits],
                              writer, header)} :
        /\ stream' = r.br.stream
        /\ unread_bits' = r.br.unread_bits
        /\ writer' = r.w
        /\ result' = [op |-> "read_content", ok |-> r.ok, err |-> r.err]
        /\ IF r.ok
           THEN pc' = "DeflateReader" /\ is_exhausted' = header.is_final
           ELSE pc' = "Err" /\ UNCHANGED is_exhausted
    /\ ghost' = [ghost EXCEPT !.sink_before = SinkData]
    /\ UNCHANGED header

\* What the footer action records of the state it started in: the two
\* fields as they stand in the input, and the writer's counters.
FooterSeen ==
    [has    |-> Len(stream) >= 8,
     crc    |-> IF Len(stream) >= 8
                THEN u32_from_le(stream[1], stream[2], stream[3], stream[4])
                ELSE <<0, 0>>,
     isize  |-> IF Len(stream) >= 8
                THEN u32_from_le(stream[5], stream[6], stream[7], stream[8])
                ELSE <<0, 0>>,
     out    |-> MemberOut,
     count  |-> writer.byte_count,
     digest |-> writer.digest]

\* process_gzip_footer: gzip_footer.read_footer()
ReadFooter ==
    /\ pc = "GzipFooter"
    /\ \E r \in {read_footer(GzipFooter_new(stream, writer))} :
        /\ stream' = r.gzip_reader.reader
        /\ writer' = TrackingWriter_new(r.gzip_reader.underlying_writer)
        /\ result' = [op |-> "read_footer", ok |-> r.ok, err |-> r.err]
        /\ ghost' = [ghost EXCEPT
                        !.sink_before = SinkData,
                        !.seen = FooterSeen,
                        !.footers = IF r.ok
                                    THEN Append(@, [crc   |-> r.footer.data_crc32,
                                                    isize |-> r.footer.data_size,
                                                    out   |-> MemberOut])
                                    ELSE @]
        /\ pc' = IF r.ok THEN "GzipReader" ELSE "Err"
    /\ UNCHANGED <<unread_bits, is_exhausted, header>>

Next ==
    \/ DecompressDone
    \/ NextMember
    \/ NextBlock
    \/ ReadContent
    \/ ReadFooter

Spec == Init /\ [][Next]_vars

----------------------------------------------------------------------------
(* Claims about decompress (Spec).                                         *)

IsPrefix(p, s) == Len(p) <= Len(s) /\ SubSeq(s, 1, Len(p)) = p

Returned == pc \in {"Ok", "Err"}
UnlimitedSink == writer.inner.cap = NoLimit

\* C1: for every standards-compliant gzip encoding of B (stored, fixed and
\* dynamic blocks, any valid header options), decompress returns success
\* and the sink holds exactly B.
C1_RoundTrip ==
    (Returned /\ ghost.sample.valid /\ UnlimitedSink) =>
        (pc = "Ok" /\ SinkData = ghost.sample.payload)

\* C2: for a block with BTYPE=1 the construction of the two fixed tables
\* succeeds, and a member that is one final fixed-Huffman block of literals
\* decompresses successfully to exactly those bytes.
C2_FixedBlock ==
    /\ (result.op = "read_content" /\ header.compression_type = "FixedTree") =>
            build_fixed_trees.ok
    /\ (Returned /\ ghost.sample.fixed_literals /\ UnlimitedSink) =>
            (pc = "Ok" /\ SinkData = ghost.sample.payload)

\* C3: an input of several valid members back to back is decompressed to
\* the concatenation of their payloads on the same sink, every member with
\* its own footer check and a byte counter, digest and history that start
\* empty; decompress ends with success when the input ends at a member
\* boundary.
C3_MultiMember ==
    /\ (result.op = "next_member" /\ result.ok) =>
            /\ writer.byte_count = usize_zero
            /\ writer.history = <<>>
            /\ writer.digest = CrcInit
            /\ writer.inner.data = ghost.sink_before
    /\ (Returned /\ ghost.sample.valid /\ ghost.sample.members >= 2 /\ UnlimitedSink) =>
            /\ pc = "Ok"
            /\ stream = <<>>
            /\ Len(ghost.footers) = ghost.sample.members
            /\ SinkData = ghost.sample.payload

\* C4: whenever read_footer succeeds for a member (so, when decompress
\* succeeds, for every member of the input) the footer's ISIZE is the number
\* of bytes the sink accepted for that member modulo 2^32 and its CRC32 is
\* the CRC-32 of those bytes; a footer that differs in either field makes
\* decompress return an error.
C4_FooterChecked ==
    /\ \A i \in DOMAIN ghost.footers :
            /\ ghost.footers[i].isize = usize_mod_2_32(usize_of(Len(ghost.footers[i].out)))
            /\ ghost.footers[i].crc = Crc32(ghost.footers[i].out)
    /\ (pc = "Ok" /\ ghost.sample.valid) => Len(ghost.footers) = ghost.sample.members
    /\ (/\ result.op = "read_footer" /\ ghost.seen.has
        /\ \/ ghost.seen.isize # usize_mod_2_32(usize_of(Len(ghost.seen.out)))
           \/ ghost.seen.crc # Crc32(ghost.seen.out)) =>
            (pc = "Err" /\ ~result.ok)

\* Three members accepted, each against its own footer.
C4_Witness ==
    /\ pc = "Ok" /\ Len(ghost.footers) = 3
    /\ ghost.footers[2].out # <<>>
    /\ ghost.footers[1].out # ghost.footers[2].out

\* C6: once a step of decompress fails, decompress returns that error: no
\* further step is taken, nothing more reaches the sink (what the sink held
\* before the failing step is still there, and the sink holds no byte
\* beyond the fault), and no later member is processed.
C6_AbortAtFirstError ==
    /\ [](pc = "Err" =>
            /\ ~result.ok /\ result.err # ""
            /\ IsPrefix(ghost.sink_before, SinkData)
            /\ IsPrefix(SinkData, IF ghost.sample.valid THEN ghost.sample.payload
                                  ELSE ghost.sample.written))
    /\ [][pc # "Err"]_vars

\* A back-reference beyond the output fails after one literal was written,
\* with a further literal and a footer left unread in the input.
C6_Witness ==
    /\ pc = "Err" /\ result.op = "read_content" /\ result.err = "BadBackReference"
    /\ SinkData = <<97>>
    /\ stream # <<>>

----------------------------------------------------------------------------
(* SpecFooter: decompress from the GzipFooter state of a member, reached   *)
(* after next_block returned Footer.  byte_count is a usize (64 bits), so  *)
(* the state after a member of 2^32 bytes or more is drawn here and not    *)
(* decoded: the window is full, and of the sink the bytes accepted before  *)
(* this state are left out.  Every u32 is the digest of some byte string   *)
(* of each length from 4 on, so for the long members the digest is drawn   *)
(* freely; the member of 2 bytes is "ab".  The footer in the input carries *)
(* the writer's CRC-32 or a wrong one, and byte_count modulo 2^32 or a     *)
(* wrong ISIZE; it ends the input or is followed by one more member.       *)

FooterCounts ==
    { <<2, 0, 0, 0>>,               \* 2
      <<65535, 65535, 0, 0>>,       \* 2^32 - 1
      <<0, 0, 1, 0>>,               \* 2^32
      <<5, 0, 1, 0>>,               \* 2^32 + 5
      <<0, 1, 2, 0>>,               \* 2^33 + 2^16
      <<0, 0, 0, 1>> }              \* 2^48

FooterDigests == { digest_update(CrcInit, <<97, 98>>), CrcInit, <<1, 2>> }

FooterTails ==
    { <<>>,
      <<31, 139, 8, 0, 0, 0, 0, 0, 0, 255, 1, 2, 0, 253, 255, 97, 98,
        109, 72, 131, 158, 2, 0, 0, 0>> }

FooterSample == Sample("footer", <<>>, FALSE, <<>>, <<>>, 0, FALSE)

\* The window after n bytes were accepted.
FooterHistory(n) ==
    IF n = <<2, 0, 0, 0>> THEN <<97, 98>> ELSE [i \in 1..HISTORY_SIZE |-> 97]

InitFooter ==
    /\ \E n \in FooterCounts, d \in FooterDigests, tail \in FooterTails :
       \E crc \in {digest_finalize(d), u32_xor(digest_finalize(d), <<1, 0>>)},
          isize \in {usize_mod_2_32(n), <<(n[1] + 1) % 65536, n[2]>>} :
            /\ n = <<2, 0, 0, 0>> => d = digest_update(CrcInit, <<97, 98>>)
            /\ writer = [inner      |-> Sink(<<>>, NoLimit, NoLimit, FALSE),
                         history    |-> FooterHistory(n),
                         digest     |-> d,
                         byte_count |-> n]
            /\ stream = u32_to_le_bytes(crc) \o u32_to_le_bytes(isize) \o tail
    /\ unread_bits = BitSequence(0, 0)
    /\ pc = "GzipFooter"
    /\ is_exhausted = TRUE
    /\ header = [is_final |-> TRUE, compression_type |-> "Uncompressed"]
    /\ result = [op |-> "next_block", ok |-> TRUE, err |-> ""]
    /\ ghost = [sample |-> FooterSample, member_start |-> 0, sink_before |-> <<>>,
                footers |-> <<>>, seen |-> NoSeen]

SpecFooter == InitFooter /\ [][Next]_vars

\* C5: the footer length check compares ISIZE with byte_count modulo 2^32:
\* for a member of 2^32 bytes or more, a footer whose ISIZE is the length
\* modulo 2^32 and whose CRC32 is right passes, and the member is accepted.
C5_FooterModulo ==
    (/\ result.op = "read_footer" /\ ghost.seen.has
     /\ (ghost.seen.count[3] > 0 \/ ghost.seen.count[4] > 0)
     /\ ghost.seen.isize = usize_mod_2_32(ghost.seen.count)
     /\ ghost.seen.crc = digest_finalize(ghost.seen.digest)) =>
        (result.ok /\ pc = "GzipReader")

----------------------------------------------------------------------------
(* SpecHC: a HuffmanCoding<Value> built by from_lengths from a vector of   *)
(* code lengths, then read_symbol calls on a BitReader until one fails     *)
(* (tests::from_lengths, tests::read_symbol, tests::from_lengths_with_zeros). *)

\* The vectors have up to MaxSyms lengths in 0..MaxCodeLen; the vectors of
\* the tests and vectors at MAX_BITS are added.
MaxSyms == 4
MaxCodeLen == 2

TestLengths == <<2, 3, 4, 3, 3, 4, 2>>
TestLengthsWithZeros == <<3, 4, 5, 5, 0, 0, 6, 6, 4, 0, 6, 0, 7>>

LengthVectors ==
    SeqsUpTo(0..MaxCodeLen, MaxSyms)
        \cup {TestLengths, TestLengthsWithZeros, <<1, 2, 3, 3>>, <<3, 0, 3, 3, 3, 1>>,
              <<2, 2, 2, 2, 2>>, <<15, 15, 1>>, <<16, 1>>}

\* The byte source of tests::read_symbol, and short sources.
SymbolStreams ==
    { <<185, 202, 237>>, <<>>, <<0>>, <<255, 255>>, <<165, 90>> }

InitHC ==
    /\ stream \in SymbolStreams
    /\ unread_bits = BitSequence(0, 0)
    /\ writer = NoWriter
    /\ pc = "from_lengths"
    /\ is_exhausted = FALSE
    /\ header = NoHeader
    /\ result = NoResult
    /\ \E v \in LengthVectors :
        ghost = [code_lengths |-> v, data |-> stream,
                 coding |-> [ok |-> FALSE, err |-> "", map |-> EmptyMap],
                 before |-> BitReader_new(stream), token |-> NoToken]

\* HuffmanCoding::<Value>::from_lengths(&code_lengths)
HCFromLengths ==
    /\ pc = "from_lengths"
    /\ \E r \in {from_lengths(ghost.code_lengths, "Value")} :
        /\ ghost' = [ghost EXCEPT !.coding = r]
        /\ result' = [op |-> "from_lengths", ok |-> r.ok, err |-> r.err]
        /\ pc' = IF r.ok THEN "read_symbol" ELSE "Err"
    /\ UNCHANGED <<stream, unread_bits, writer, is_exhausted, header>>

\* code.read_symbol(&mut reader)
HCReadSymbol ==
    /\ pc = "read_symbol"
    /\ \E r \in {read_symbol(ghost.coding.map,
                             [stream |-> stream, unread_bits |-> unread_bits])} :
        /\ stream' = r.br.stream
        /\ unread_bits' = r.br.unread_bits
        /\ ghost' = [ghost EXCEPT
                        !.before = [stream |-> stream, unread_bits |-> unread_bits],
                        !.token = r.token]
        /\ result' = [op |-> "read_symbol", ok |-> r.ok, err |-> r.err]
        /\ pc' = IF r.ok THEN "read_symbol" ELSE "Err"
    /\ UNCHANGED <<writer, is_exhausted, header>>

NextHC ==
    \/ HCFromLengths
    \/ HCReadSymbol

SpecHC == InitHC /\ [][NextHC]_vars

----------------------------------------------------------------------------
(* Claims about HuffmanCoding (SpecHC).                                    *)

Built == pc # "from_lengths" /\ ghost.coding.ok
Used(v) == {i \in DOMAIN v : v[i] # 0}

\* RFC 1951, 3.2.2, step 2: the smallest code of each length.
RECURSIVE RfcFirstCode(_, _)
RfcFirstCode(v, L) ==
    IF L <= 1 THEN 0
    ELSE 2 * (RfcFirstCode(v, L - 1) + Cardinality({i \in DOMAIN v : v[i] = L - 1}))

\* Step 3: the code of the i-th length (1-based).
RfcCode(v, i) ==
    RfcFirstCode(v, v[i]) + Cardinality({j \in 1..(i - 1) : v[j] = v[i]})

RfcKey(v, i) == BitSequence(RfcCode(v, i), v[i])

\* C11: for every vector of code lengths that from_lengths accepts the
\* table is the canonical assignment of RFC 1951, 3.2.2: a symbol of length
\* 0 has no key, and symbol i of length L has the key (code, L), code being
\* the first code of length L plus the number of earlier symbols of length
\* L; the lengths [2,3,4,3,3,4,2] give 00, 100, 1110, 101, 110, 1111, 01.
C11_CanonicalCodes ==
    Built =>
        /\ DOMAIN ghost.coding.map = {RfcKey(ghost.code_lengths, i) : i \in Used(ghost.code_lengths)}
        /\ \A i \in Used(ghost.code_lengths) :
                /\ ghost.coding.map[RfcKey(ghost.code_lengths, i)].val = i - 1
                /\ \A j \in Used(ghost.code_lengths) :
                        RfcKey(ghost.code_lengths, j) = RfcKey(ghost.code_lengths, i) => j = i
        /\ ghost.code_lengths = TestLengths =>
                /\ ghost.coding.map[BitSequence(0, 2)].val = 0
                /\ ghost.coding.map[BitSequence(4, 3)].val = 1
                /\ ghost.coding.map[BitSequence(14, 4)].val = 2
                /\ ghost.coding.map[BitSequence(5, 3)].val = 3
                /\ ghost.coding.map[BitSequence(6, 3)].val = 4
                /\ ghost.coding.map[BitSequence(15, 4)].val = 5
                /\ ghost.coding.map[BitSequence(1, 2)].val = 6

\* The table of tests::from_lengths_with_zeros is built: zeros between
\* the lengths, several symbols per length.
C11_Witness ==
    Built /\ ghost.code_lengths = TestLengthsWithZeros
          /\ Cardinality(DOMAIN ghost.coding.map) = 9

\* The n bits from bit p of the stream as a code: the first bit read is the
\* most significant one.
RECURSIVE CodeAt(_, _, _)
CodeAt(data, p, n) ==
    IF n = 0 THEN 0 ELSE 2 * CodeAt(data, p, n - 1) + StreamBit(data, p + n - 1)

\* The bit position of a BitReader over `data`.
BitPos(data, br) == 8 * (Len(data) - Len(br.stream)) - br.unread_bits.len

\* The code lengths n in 1..MAX_BITS at which the bits from p are a key.
HitsAt(map, data, p) ==
    {n \in 1..MAX_BITS : /\ p + n <= 8 * Len(data)
                         /\ BitSequence(CodeAt(data, p, n), n) \in DOMAIN map}

\* Key a is a proper prefix of key b, or the same code at the same length.
KeyPrefix(a, b) == a.len <= b.len /\ b.bits \div 2^(b.len - a.len) = a.bits

C13_ReadSymbol ==
    (result.op = "read_symbol") =>
        LET p    == BitPos(ghost.data, ghost.before)
            hits == HitsAt(ghost.coding.map, ghost.data, p)
            now  == BitPos(ghost.data, [stream |-> stream, unread_bits |-> unread_bits])
        IN  /\ hits # {} =>
                LET n == CHOOSE n \in hits : \A m \in hits : n <= m
                IN  /\ result.ok
                    /\ ghost.token = ghost.coding.map[BitSequence(CodeAt(ghost.data, p, n), n)]
                    /\ now = p + n
            /\ (hits = {} /\ p + MAX_BITS <= 8 * Len(ghost.data)) =>
                (~result.ok /\ result.err = "MalformedCode" /\ now = p + MAX_BITS)
            /\ (hits = {} /\ p + MAX_BITS > 8 * Len(ghost.data)) =>
                (~result.ok /\ result.err = "UnexpectedEof")

\* The fourth read of tests::read_symbol: the code 01 of symbol 6, read
\* from bit 10 of the source.
C13_Witness ==
    /\ result.op = "read_symbol" /\ result.ok
    /\ ghost.code_lengths = TestLengths /\ ghost.data = <<185, 202, 237>>
    /\ BitPos(ghost.data, ghost.before) = 10
    /\ ghost.token.val = 6

\* The Kraft sum of the nonzero lengths, times 2^MAX_BITS.
RECURSIVE KraftSum(_)
KraftSum(v) ==
    IF v = <<>> THEN 0
    ELSE (IF Head(v) = 0 \/ Head(v) > MAX_BITS THEN 0 ELSE 2^(MAX_BITS - Head(v)))
         + KraftSum(Tail(v))

\* C14: from_lengths fails (MalformedCode) for every vector that
\* over-subscribes the code space (Kraft sum above 1), such as [1,1,1] and
\* [1,1,2]; so every key of a table that was built has bits < 2^len.
C14_OverSubscribedRejected ==
    /\ (pc # "from_lengths" /\ KraftSum(ghost.code_lengths) > 2^MAX_BITS) =>
            (~ghost.coding.ok /\ result.op = "from_lengths" /\ result.err = "MalformedCode")
    /\ Built => \A k \in DOMAIN ghost.coding.map : k.bits < 2^k.len

----------------------------------------------------------------------------
(* SpecHeader: GzipReader::read_header on one member header, laid out as   *)
(* RFC 1952, 2.3 and read_header's order of reads give it.                 *)

\* Names and comments have up to MaxText bytes.
MaxText == 2

\* The bytes of a header with the flag byte flg: the fixed ten bytes, then
\* the optional fields in the order read_header reads them.  cut says where
\* the input ends: "none" (after the whole header), "name" (inside the name,
\* before its NUL), "comment" (inside the comment, before its NUL).
HeaderBytes(flg, extra, name, comment, cut) ==
    <<ID1, ID2, CM_DEFLATE, flg, 1, 2, 3, 4, 2, 3>>
    \o (IF bit(flg, FEXTRA_OFFSET)
        THEN u16_to_le_bytes(Len(extra)) \o extra ELSE <<>>)
    \o (IF bit(flg, FNAME_OFFSET)
        THEN name \o (IF cut = "name" THEN <<>> ELSE <<0>>) ELSE <<>>)
    \o (IF bit(flg, FCOMMENT_OFFSET) /\ cut # "name"
        THEN comment \o (IF cut = "comment" THEN <<>> ELSE <<0>>) ELSE <<>>)

InitHeader ==
    /\ unread_bits = BitSequence(0, 0)
    /\ writer = NoWriter
    /\ pc = "read_header"
    /\ is_exhausted = FALSE
    /\ header = NoHeader
    /\ result = NoResult
    /\ \E low \in 0..31, high \in {0, 32, 64, 128, 224},
          name \in SeqsUpTo({97}, MaxText) \cup {<<233>>},
          comment \in SeqsUpTo({99}, MaxText) \cup {<<233>>},
          cut \in {"none", "name", "comment"}, right \in BOOLEAN :
        \E flg \in {low + high} :
            /\ bit(flg, FNAME_OFFSET) \/ (name = <<>> /\ cut # "name")
            /\ bit(flg, FCOMMENT_OFFSET) \/ (comment = <<>> /\ cut # "comment")
            /\ cut = "name" => comment = <<>>
            /\ (bit(flg, FHCRC_OFFSET) /\ cut = "none") \/ right
            /\ \E body \in {HeaderBytes(flg, <<7>>, name, comment, cut)} :
               \E stored \in {IF bit(flg, FHCRC_OFFSET) /\ cut = "none"
                              THEN IF right THEN Crc32(body)[1]
                                   ELSE BitXor(Crc32(body)[1], 1)
                              ELSE -1} :
                /\ stream = body \o (IF stored < 0 THEN <<>> ELSE u16_to_le_bytes(stored))
                /\ ghost = [data |-> stream, flg |-> flg, name |-> name,
                            comment |-> comment, cut |-> cut, body |-> body,
                            stored |-> stored, member |-> NoMemberHeader]

\* self.read_header()
HeaderRead ==
    /\ pc = "read_header"
    /\ \E r \in {read_header(stream)} :
        /\ stream' = r.stream
        /\ ghost' = [ghost EXCEPT !.member = r.header]
        /\ result' = [op |-> "read_header", ok |-> r.ok, err |-> r.err]
        /\ pc' = IF r.ok THEN "Ok" ELSE "Err"
    /\ UNCHANGED <<unread_bits, writer, is_exhausted, header>>

NextHeader == HeaderRead

SpecHeader == InitHeader /\ [][NextHeader]_vars

----------------------------------------------------------------------------
(* Claims about the member header (SpecHeader).                            *)

HeaderDone == pc \in {"Ok", "Err"} /\ result.op = "read_header"

\* C15: with FHCRC set, a complete header is accepted exactly when the
\* stored u16 is the low 16 bits of the CRC-32 of the header bytes as they
\* appeared in the input (the flag byte as read, each string with its one
\* NUL), whatever the other flags and the bits 0 and 5..7 are.
C15_HeaderCrc ==
    (HeaderDone /\ bit(ghost.flg, FHCRC_OFFSET) /\ ghost.cut = "none")
        => (result.ok <=> ghost.stored = Crc32(ghost.body)[1])

\* C16: a name or comment that the end of the input cuts before its NUL is
\* refused with the unterminated-string error, with no byte or with some
\* bytes read.
C16_Unterminated ==
    (HeaderDone /\ ghost.cut # "none"
        /\ (ghost.cut = "comment" => is_utf8(ghost.name)))
        => (~result.ok /\ result.err = "UnterminatedString")

----------------------------------------------------------------------------
(* Claims about the blocks of a member (Spec).                             *)

\* The reader's position in the input, in bits.
Here == BitPos(ghost.sample.bytes, [stream |-> stream, unread_bits |-> unread_bits])

\* C17: read_content on a block with BTYPE=0 drops the unread bits of the
\* current byte and takes LEN and NLEN, as u16 LE, from the next four whole
\* bytes; when LEN is not the complement of NLEN it fails with the writer
\* untouched; otherwise the LEN bytes that follow are what the writer is
\* given: the sink, the history and byte_count grow by exactly them, and
\* the reader is left with no unread bit at the byte after them.
C17_StoredBlock ==
    [][(pc = "DeflateBlock" /\ header.compression_type = "Uncompressed"
            /\ Len(stream) >= 4)
        => LET len   == stream[1] + 256 * stream[2]
               nlen  == stream[3] + 256 * stream[4]
               bytes == SubSeq(stream, 5, 4 + len)
           IN  IF len + nlen # 65535
               THEN /\ pc' = "Err" /\ result'.err = "StoredLengthMismatch"
                    /\ writer' = writer
               ELSE Len(stream) >= 4 + len =>
                    /\ IsPrefix(SinkData', SinkData \o bytes)
                    /\ UnlimitedSink =>
                        /\ pc' = "DeflateReader"
                        /\ SinkData' = SinkData \o bytes
                        /\ writer'.history = LastN(writer.history \o bytes, HISTORY_SIZE)
                        /\ writer'.byte_count = usize_add(writer.byte_count, len)
                    /\ pc' = "DeflateReader" =>
                        /\ stream' = SubSeq(stream, 5 + len, Len(stream))
                        /\ unread_bits'.len = 0
                        /\ Here' % 8 = 0]_vars

\* A stored block whose header began at the last bit of a byte, after a
\* dynamic block, was copied.
C17_Witness ==
    /\ ghost.sample.name = "dynamic_then_stored_7"
    /\ result.op = "read_content" /\ result.ok
    /\ header.compression_type = "Uncompressed"
    /\ SinkData = <<97, 98>>
    /\ unread_bits.len = 0

\* The type of the block whose header's two BTYPE bits have the value t.
BlockType(t) ==
    CASE t = 0 -> "Uncompressed" [] t = 1 -> "FixedTree"
      [] t = 2 -> "DynamicTree"  [] t = 3 -> "Reserved"

\* One step of decompress keeps the order header, blocks, footer: a block
\* header is BFINAL and BTYPE, 3 bits read where the reader stands; a block
\* that was processed sets is_exhausted to its BFINAL; with is_exhausted set
\* no bit is read, the unread bits are dropped, and the footer's 8 bytes are
\* the next whole bytes; BTYPE=3 fails with the writer untouched.
PhaseOrderStep ==
    /\ pc = "GzipReader" => pc' \in {"DeflateReader", "Ok", "Err"}
    /\ pc = "DeflateReader" =>
        IF is_exhausted
        THEN /\ pc' = "GzipFooter"
             /\ stream' = stream /\ unread_bits'.len = 0 /\ writer' = writer
        ELSE /\ pc' \in {"DeflateBlock", "Err"}
             /\ pc' = "DeflateBlock" =>
                 /\ Here' = Here + 3
                 /\ header'.is_final = (StreamBit(ghost.sample.bytes, Here) = 1)
                 /\ header'.compression_type =
                        BlockType(StreamBits(ghost.sample.bytes, Here + 1, 2))
    /\ pc = "DeflateBlock" =>
        /\ pc' \in {"DeflateReader", "Err"}
        /\ pc' = "DeflateReader" => is_exhausted' = header.is_final
        /\ header.compression_type = "Reserved" =>
             /\ pc' = "Err" /\ result'.err = "ReservedBlockType"
             /\ writer' = writer
    /\ pc = "GzipFooter" =>
        /\ unread_bits.len = 0
        /\ pc' \in {"GzipReader", "Err"}
        /\ Len(stream) >= 8 => stream' = SubSeq(stream, 9, Len(stream))

\* In a valid input a fixed or dynamic block with BFINAL=0 is processed, and
\* the reader then stands inside the byte where its end-of-block code ended:
\* the next header is read there.
CarryStep ==
    (pc = "DeflateBlock" /\ header.compression_type \in {"FixedTree", "DynamicTree"}
        /\ ~header.is_final /\ ghost.sample.valid /\ UnlimitedSink)
        => (pc' = "DeflateReader" /\ ~is_exhausted')

\* C18: within a member the phases are header, blocks, footer; block headers
\* are read until a block with BFINAL=1 was processed, then nothing more is
\* read, the leftover bits are dropped and the footer is read from the next
\* whole byte; after a fixed or dynamic block with BFINAL=0 the next header
\* is read at the bit after the end-of-block code, with no realignment; a
\* header with BTYPE=3 fails with nothing written for that block.
C18_BlockSequence == [][PhaseOrderStep /\ CarryStep]_vars

----------------------------------------------------------------------------
(* SpecCL: decode_litlen_distance_trees on the head of a dynamic block:    *)
(* HLIT, HDIST, HCLEN, the code lengths of the code-length alphabet, and   *)
(* then code-length symbols with their extra bits.                         *)

\* The symbols that follow the head: up to MaxDirectives of them.
MaxDirectives == 3

\* n bits of x, least significant first (a field read by read_bits).
NumBits(x, n) == [i \in 1..n |-> (x \div 2^(i - 1)) % 2]

\* The bytes read_bits pulls for a sequence of bits: bit j of byte k is bit
\* 8k + j of the sequence, the last byte filled with zeros.
PackBits(bits) ==
    [k \in 1..((Len(bits) + 7) \div 8) |->
        LET b(j) == IF 8 * (k - 1) + j + 1 <= Len(bits) THEN bits[8 * (k - 1) + j + 1] ELSE 0
        IN  b(0) + 2 * b(1) + 4 * b(2) + 8 * b(3) + 16 * b(4) + 32 * b(5) + 64 * b(6) + 128 * b(7)]

\* The code lengths of the code-length alphabet in the head: HCLEN + 4 = 6
\* lengths, for the symbols 16, 17, 18, 0, 8, 7 in the order of
\* build_codelen_coding.
CodelenCodeLengths ==
    [i \in 1..19 |-> IF i - 1 \in {0, 8} THEN 2
                     ELSE IF i - 1 \in {7, 16, 17, 18} THEN 3 ELSE 0]

\* HLIT, HDIST, HCLEN = 2 and the six lengths, 3 bits each: 32 bits.
TreeHead(hlit, hdist) ==
    NumBits(hlit, 5) \o NumBits(hdist, 5) \o NumBits(2, 4)
    \o NumBits(3, 3) \o NumBits(3, 3) \o NumBits(3, 3)
    \o NumBits(2, 3) \o NumBits(2, 3) \o NumBits(3, 3)

\* A code-length symbol with the value of its extra bits, as it stands in
\* the input: the Huffman code most significant bit first (the codes of
\* CodelenCodeLengths: 0 -> 00, 8 -> 01, 7 -> 100, 16 -> 101, 17 -> 110,
\* 18 -> 111), then the extra bits least significant first.
DirectiveBits(d) ==
    (CASE d.sym = 0  -> <<0, 0>>    [] d.sym = 8  -> <<0, 1>>
       [] d.sym = 7  -> <<1, 0, 0>> [] d.sym = 16 -> <<1, 0, 1>>
       [] d.sym = 17 -> <<1, 1, 0>> [] d.sym = 18 -> <<1, 1, 1>>)
    \o NumBits(d.x, CASE d.sym = 16 -> 2 [] d.sym = 17 -> 3 [] d.sym = 18 -> 7
                      [] OTHER -> 0)

RECURSIVE DirectivesBits(_)
DirectivesBits(ds) ==
    IF ds = <<>> THEN <<>> ELSE DirectiveBits(Head(ds)) \o DirectivesBits(Tail(ds))

\* The symbols drawn after a lead.
Directives ==
    { [sym |-> 18, x |-> 0], [sym |-> 17, x |-> 0], [sym |-> 17, x |-> 7],
      [sym |-> 16, x |-> 0], [sym |-> 16, x |-> 3],
      [sym |-> 8, x |-> 0], [sym |-> 7, x |-> 0] }

\* The leads: nothing, 240 zeros and 247 zeros (HLIT + 257 is 257 at least).
Leads ==
    { <<>>,
      <<[sym |-> 18, x |-> 127], [sym |-> 18, x |-> 91]>>,
      <<[sym |-> 18, x |-> 127], [sym |-> 18, x |-> 98]>> }

InitCL ==
    /\ unread_bits = BitSequence(0, 0)
    /\ writer = NoWriter
    /\ pc = "decode_litlen_distance_trees"
    /\ is_exhausted = FALSE
    /\ header = [is_final |-> TRUE, compression_type |-> "DynamicTree"]
    /\ result = NoResult
    /\ \E lead \in Leads, ds \in SeqsUpTo(Directives, MaxDirectives),
          counts \in {<<0, 0>>, <<0, 1>>} :
        /\ stream = PackBits(TreeHead(counts[1], counts[2])
                             \o DirectivesBits(lead \o ds))
        /\ ghost = [data |-> stream, hlit |-> counts[1], hdist |-> counts[2],
                    directives |-> lead \o ds, trees |-> TreesErr("", BitReader_new(<<>>))]

\* decode_litlen_distance_trees(&mut self.bit_reader)
CLDecode ==
    /\ pc = "decode_litlen_distance_trees"
    /\ \E r \in {decode_litlen_distance_trees([stream |-> stream,
                                               unread_bits |-> unread_bits])} :
        /\ stream' = r.br.stream
        /\ unread_bits' = r.br.unread_bits
        /\ ghost' = [ghost EXCEPT !.trees = r]
        /\ result' = [op |-> "decode_litlen_distance_trees", ok |-> r.ok, err |-> r.err]
        /\ pc' = IF r.ok THEN "Ok" ELSE "Err"
    /\ UNCHANGED <<writer, is_exhausted, header>>

NextCL == CLDecode

SpecCL == InitCL /\ [][NextCL]_vars

----------------------------------------------------------------------------
(* Claims about the code lengths of a dynamic block (SpecCL).              *)

\* The code-length symbols whose code (RFC 1951, 3.2.2) stands at bit p.
CodelenHits(data, p) ==
    {i \in 1..19 : /\ CodelenCodeLengths[i] # 0
                   /\ p + CodelenCodeLengths[i] <= 8 * Len(data)
                   /\ CodeAt(data, p, CodelenCodeLengths[i]) = RfcCode(CodelenCodeLengths, i)}

\* RFC 1951, 3.2.7: the lengths that the symbols from bit p on stand for,
\* after those of acc, until total lengths or more are there.
RECURSIVE RefLengths(_, _, _, _)
RefLengths(data, p, acc, total) ==
    IF Len(acc) >= total
    THEN [kind |-> IF Len(acc) > total THEN "overrun" ELSE "ok", lengths |-> acc]
    ELSE IF CodelenHits(data, p) = {} THEN [kind |-> "eof", lengths |-> acc]
    ELSE LET sym == (CHOOSE i \in CodelenHits(data, p) : TRUE) - 1
             q   == p + CodelenCodeLengths[sym + 1]
             nx  == CASE sym = 16 -> 2 [] sym = 17 -> 3 [] sym = 18 -> 7 [] OTHER -> 0
             x   == StreamBits(data, q, nx)
         IN  IF q + nx > 8 * Len(data) THEN [kind |-> "eof", lengths |-> acc]
             ELSE IF sym <= 15 THEN RefLengths(data, q, Append(acc, sym), total)
             ELSE IF sym = 16
             THEN IF acc = <<>> THEN [kind |-> "noprev", lengths |-> acc]
                  ELSE RefLengths(data, q + nx,
                                  acc \o [k \in 1..(3 + x) |-> acc[Len(acc)]], total)
             ELSE IF sym = 17
             THEN RefLengths(data, q + nx, acc \o [k \in 1..(3 + x) |-> 0], total)
             ELSE RefLengths(data, q + nx, acc \o [k \in 1..(11 + x) |-> 0], total)

CLDone == pc \in {"Ok", "Err"} /\ result.op = "decode_litlen_distance_trees"

\* C19: the code lengths of a dynamic block are nlit + ndist lengths read as
\* one sequence: 0..15 is a length, 16 repeats the previous length 3 + x
\* times (2 extra bits) and fails when there is none, 17 stands for 3 + x
\* zeros (3 extra bits), 18 for 11 + x zeros (7 extra bits); a repeat that
\* goes beyond nlit + ndist fails the block; the first nlit lengths make the
\* literal/length table and the other ndist the distance table.
C19_CodeLengths ==
    CLDone =>
        LET nlit  == ghost.hlit + 257
            total == nlit + ghost.hdist + 1
            ref   == RefLengths(ghost.data, 32, <<>>, total)
        IN  CASE ref.kind = "eof"     -> ~result.ok /\ result.err = "UnexpectedEof"
              [] ref.kind = "noprev"  -> ~result.ok /\ result.err = "NoPrevLength"
              [] ref.kind = "overrun" -> ~result.ok /\ result.err = "OverrunLengths"
              [] ref.kind = "ok"      ->
                    \E l \in {from_lengths(SubSeq(ref.lengths, 1, nlit), "LitLenToken")},
                       d \in {from_lengths(SubSeq(ref.lengths, nlit + 1, total),
                                           "DistanceToken")} :
                        /\ Len(ref.lengths) = total
                        /\ result.ok = (l.ok /\ d.ok)
                        /\ result.ok => /\ ghost.trees.litlen = l.map
                                        /\ ghost.trees.dist = d.map

\* 240 zeros and 11 zeros by symbol 18, an 8, and six more 8 by symbol 16:
\* the lengths 251..256 of the literal/length table and, across the
\* boundary, the one length of the distance table.
C19_Witness ==
    /\ pc = "Ok" /\ ghost.hlit = 0 /\ ghost.hdist = 0
    /\ ghost.directives =
         <<[sym |-> 18, x |-> 127], [sym |-> 18, x |-> 91], [sym |-> 18, x |-> 0],
           [sym |-> 8, x |-> 0], [sym |-> 16, x |-> 3]>>
    /\ Cardinality(DOMAIN ghost.trees.litlen) = 6
    /\ \A k \in DOMAIN ghost.trees.litlen : k.len = 8
    /\ {ghost.trees.litlen[k].val : k \in DOMAIN ghost.trees.litlen} = {0} \cup 251..255
    /\ \E k \in DOMAIN ghost.trees.litlen : ghost.trees.litlen[k].kind = "EndOfBlock"
    /\ DOMAIN ghost.trees.dist = {BitSequence(0, 8)}

----------------------------------------------------------------------------
(* The unread-bits buffer of the BitReader (SpecBR).                       *)

\* The last byte the reader pulled from its source.
LastPulled == ghost.data[Len(ghost.data) - Len(stream)]

\* C20: after every read_bits, successful or failed, and after
\* borrow_reader_from_boundary, the unread-bits buffer holds fewer than 8
\* bits, and they are the high bits, not returned yet, of the last byte
\* pulled from the source; a read_bits that fails leaves the buffer as it
\* was.
C20_UnreadBits ==
    /\ [](pc = "BitReader" =>
            /\ unread_bits.len < 8
            /\ unread_bits.bits < 2^unread_bits.len
            /\ unread_bits.len > 0 =>
                /\ Len(stream) < Len(ghost.data)
                /\ unread_bits.bits = LastPulled \div 2^(8 - unread_bits.len))
    /\ [][(pc = "BitReader" /\ result'.op = "read_bits" /\ ~result'.ok)
            => unread_bits' = unread_bits]_vars

----------------------------------------------------------------------------
(* SpecLD: process_length_token on every length symbol 257..285 and every  *)
(* distance symbol 0..29 with every value of their extra bits.  The window *)
(* holds three bytes, so that the copies at the distances 1..3 are made    *)
(* and the others are refused by write_previous.                           *)

\* A distance table with a code of 5 bits for each of the symbols 0..29:
\* symbol c has the code c.
DistanceTree == from_lengths(Repeat(5, 30), "DistanceToken").map

\* The writer after "abc" was written to an unlimited sink.
WindowWriter ==
    write_all(TrackingWriter_new(Sink(<<>>, NoLimit, NoLimit, FALSE)), <<97, 98, 99>>).w

\* The input of process_length_token: the extra bits of the length, the
\* code of the distance symbol (5 bits, most significant first) and the
\* extra bits of the distance.
LengthDistanceBits(x, nx, dcode, y, ny) ==
    PackBits(NumBits(x, nx) \o [i \in 1..5 |-> (dcode \div 2^(5 - i)) % 2]
             \o NumBits(y, ny))

\* Every length with the distances 1, 3 and 32768, and every distance with
\* the lengths 3 and 258.
InitLD ==
    /\ unread_bits = BitSequence(0, 0)
    /\ writer = WindowWriter
    /\ pc = "process_length_token"
    /\ is_exhausted = FALSE
    /\ header = [is_final |-> TRUE, compression_type |-> "DynamicTree"]
    /\ result = NoResult
    /\ \E lcode \in 257..285, dcode \in 0..29 :
       \E lt \in {LitLenToken_try_from(lcode).token},
          dt \in {DistanceToken_try_from(dcode).token} :
       \E x \in 0..(2^lt.extra_bits - 1), y \in 0..(2^dt.extra_bits - 1) :
        /\ \/ <<dcode, y>> \in {<<0, 0>>, <<2, 0>>, <<29, 8191>>}
           \/ <<lcode, x>> \in {<<257, 0>>, <<285, 0>>}
        /\ stream = LengthDistanceBits(x, lt.extra_bits, dcode, y, dt.extra_bits)
        /\ ghost = [lcode |-> lcode, x |-> x, dcode |-> dcode, y |-> y,
                    len_token |-> lt, len |-> 0, dist |-> 0]

\* self.process_length_token(base, extra_bits, &distance_tree); len and dist
\* are the two sums it passes to write_previous.
LDProcess ==
    /\ pc = "process_length_token"
    /\ \E r \in {process_length_token([stream |-> stream, unread_bits |-> unread_bits],
                                      writer, ghost.len_token.base,
                                      ghost.len_token.extra_bits, DistanceTree)} :
        /\ stream' = r.br.stream
        /\ unread_bits' = r.br.unread_bits
        /\ writer' = r.w
        /\ result' = [op |-> "process_length_token", ok |-> r.ok, err |-> r.err]
        /\ pc' = IF r.ok THEN "Ok" ELSE "Err"
    /\ ghost' = [ghost EXCEPT
                    !.len  = u16(ghost.len_token.base + ghost.x),
                    !.dist = u16(DistanceToken_try_from(ghost.dcode).token.base + ghost.y)]
    /\ UNCHANGED <<is_exhausted, header>>

NextLD == LDProcess

SpecLD == InitLD /\ [][NextLD]_vars

----------------------------------------------------------------------------
(* Claims about lengths and distances (SpecLD).                            *)

\* RFC 1951, 3.2.5: the extra bits of a length code and of a distance code.
RfcLenExtra(c) == IF c <= 264 \/ c = 285 THEN 0 ELSE (c - 261) \div 4
RfcDistExtra(c) == IF c <= 3 THEN 0 ELSE (c \div 2) - 1

\* The first length of code c, the codes 257..284 following one another from
\* 3 on and code 285 standing for 258; the first distance of code c, the
\* codes following one another from 1 on.
RECURSIVE RfcLenBase(_)
RfcLenBase(c) ==
    IF c = 257 THEN 3 ELSE IF c = 285 THEN 258
    ELSE RfcLenBase(c - 1) + 2^RfcLenExtra(c - 1)

RECURSIVE RfcDistBase(_)
RfcDistBase(c) == IF c = 0 THEN 1 ELSE RfcDistBase(c - 1) + 2^RfcDistExtra(c - 1)

LDDone == pc \in {"Ok", "Err"} /\ result.op = "process_length_token"

\* C21: the length and the distance that process_length_token passes to
\* write_previous are base + extra without u16 overflow, with
\* 3 <= length <= 258 and 1 <= distance <= 32768, for every length code
\* 257..285 and distance code 0..29 and every value of the extra bits; the
\* ranges of the distance codes follow one another from 1 to 32768 with no
\* gap and no overlap.
C21_LengthDistanceRange ==
    LDDone =>
        /\ ghost.len = RfcLenBase(ghost.lcode) + ghost.x
        /\ ghost.x < 2^RfcLenExtra(ghost.lcode)
        /\ 3 <= ghost.len /\ ghost.len <= 258
        /\ ghost.dist = RfcDistBase(ghost.dcode) + ghost.y
        /\ ghost.y < 2^RfcDistExtra(ghost.dcode)
        /\ 1 <= ghost.dist /\ ghost.dist <= 32768
        /\ RfcDistBase(30) = 32769
        /\ result.ok <=> ghost.dist <= 3
        /\ ~result.ok => (result.err = "BadBackReference" /\ writer = WindowWriter)
        /\ result.ok =>
            SinkData = <<97, 98, 99>>
                \o [i \in 1..ghost.len |-> <<97, 98, 99>>[4 - ghost.dist + ((i - 1) % ghost.dist)]]

\* The longest length at the farthest distance: code 285 and code 29 with
\* all 13 extra bits set.
C21_Witness ==
    /\ LDDone /\ ghost.lcode = 285 /\ ghost.dcode = 29 /\ ghost.y = 8191
    /\ ghost.len = 258 /\ ghost.dist = 32768
    /\ stream = <<>>

=============================================================================
